---- MODULE Spec2Model ----
(***************************************************************************)
(* Key-sequence recognition of the LyX hotkey extension.                   *)
(*                                                                         *)
(* The model follows the content script's LyXHotkeyExtension               *)
(* (content.js), which wires an EventManager, a KeySequenceHandler         *)
(* (core/key-sequence-handler.js), an ElementDetector and an               *)
(* ActionExecutor (core/config-manager.js) together, plus the host's       *)
(* timer queue (setTimeout / clearTimeout) and one focused textarea.       *)
(* Strings are TLA+ strings; Len, SubSeq and \o act on them as on          *)
(* sequences of characters.                                                *)
(***************************************************************************)
EXTENDS Integers, Sequences, FiniteSets, TLC

(***************************************************************************)
(* Bounds of the model                                                     *)
(***************************************************************************)
MaxTimerId == 3        \* at most this many setTimeout calls in one run
MaxValueLen == 2       \* key-downs are explored while the textarea is this short

(***************************************************************************)
(* Program constants                                                       *)
(***************************************************************************)
DefaultTimeoutDuration == 1000   \* this.sequenceTimeoutDuration = 1000
TickMs == DefaultTimeoutDuration \div 2   \* granularity of the host clock in the model
Null == 0                        \* the JavaScript null of this.sequenceTimeout

(***************************************************************************)
(* String helpers (String.prototype.startsWith, Array.prototype.join,      *)
(* String.prototype.toLowerCase)                                           *)
(***************************************************************************)
StartsWith(s, p) == Len(s) >= Len(p) /\ SubSeq(s, 1, Len(p)) = p

RECURSIVE Join(_, _)
Join(parts, sep) ==
  IF Len(parts) = 0 THEN ""
  ELSE IF Len(parts) = 1 THEN parts[1]
  ELSE parts[1] \o sep \o Join(Tail(parts), sep)

UpperChars == "ABCDEFGHIJKLMNOPQRSTUVWXYZ"
LowerChars == "abcdefghijklmnopqrstuvwxyz"
DigitChars == "0123456789"

IndexIn(c, alphabet) ==
  LET hits == {i \in 1..Len(alphabet) : SubSeq(alphabet, i, i) = c}
  IN  IF hits = {} THEN 0 ELSE CHOOSE i \in hits : TRUE

\* the lower-case letter of every upper-case letter
LowerOf ==
  [c \in {SubSeq(UpperChars, i, i) : i \in 1..Len(UpperChars)} |->
     SubSeq(LowerChars, IndexIn(c, UpperChars), IndexIn(c, UpperChars))]

LowerChar(c) == IF c \in DOMAIN LowerOf THEN LowerOf[c] ELSE c

RECURSIVE ToLowerCase(_)
ToLowerCase(s) ==
  IF Len(s) = 0 THEN ""
  ELSE LowerChar(SubSeq(s, 1, 1)) \o ToLowerCase(SubSeq(s, 2, Len(s)))

(***************************************************************************)
(* Actions bound in the mapping tables                                     *)
(***************************************************************************)
WrapMath == [type |-> "wrap", before |-> "$", after |-> "$", text |-> ""]
WrapLatex == [type |-> "wrap", before |-> "\\", after |-> "", text |-> ""]
InsertAlpha == [type |-> "insert", before |-> "", after |-> "", text |-> "\\alpha"]
InsertBeta == [type |-> "insert", before |-> "", after |-> "", text |-> "\\beta"]

EmptyTable == [k \in {} |-> WrapMath]

\* the table of the sequence test: only the two-combo sequence is bound
SequenceTable == ("ctrl+l a" :> InsertAlpha)

\* the default table of the background script: a chord and longer
\* sequences that start with it
DefaultMappings ==
  ("ctrl+m" :> WrapMath) @@ ("ctrl+l" :> WrapLatex) @@ ("ctrl+l a" :> InsertAlpha)

\* a three-combo sequence, and a key that extends "ctrl+m" without a space
LongTable == ("ctrl+l a a" :> InsertBeta) @@ ("ctrl+ma" :> WrapMath)

\* the chord "ctrl+l" bound next to a three-combo sequence that starts with it
ShadowedLongTable == ("ctrl+l" :> WrapLatex) @@ ("ctrl+l a a" :> InsertBeta)

Tables == {EmptyTable, SequenceTable, DefaultMappings, LongTable, ShadowedLongTable}

\* kinds of value that are neither a Map nor a plain object
InvalidKinds == {"null", "undefined", "number", "string", "boolean"}

\* values handed to setMappings: a Map, a plain object, or a value of
\* another kind
MappingValues ==
  [kind : {"map"}, entries : Tables] \cup
  [kind : {"object"}, entries : {EmptyTable, DefaultMappings}] \cup
  [kind : InvalidKinds, entries : {EmptyTable}]

(***************************************************************************)
(* Keyboard events                                                         *)
(***************************************************************************)
KeyEvent(key, code, ctrl, alt, shift, meta) ==
  [key |-> key, code |-> code, ctrlKey |-> ctrl, altKey |-> alt,
   shiftKey |-> shift, metaKey |-> meta]

EvCtrlL == KeyEvent("l", "KeyL", TRUE, FALSE, FALSE, FALSE)
EvCtrlM == KeyEvent("m", "KeyM", TRUE, FALSE, FALSE, FALSE)
EvA == KeyEvent("a", "KeyA", FALSE, FALSE, FALSE, FALSE)
EvX == KeyEvent("x", "KeyX", FALSE, FALSE, FALSE, FALSE)
EvControl == KeyEvent("Control", "ControlLeft", TRUE, FALSE, FALSE, FALSE)
EvAlt == KeyEvent("Alt", "AltLeft", FALSE, TRUE, FALSE, FALSE)
EvShift == KeyEvent("Shift", "ShiftLeft", FALSE, FALSE, TRUE, FALSE)
EvMeta == KeyEvent("Meta", "MetaLeft", FALSE, FALSE, FALSE, TRUE)
NoEvent == KeyEvent("", "", FALSE, FALSE, FALSE, FALSE)

\* what a key can carry in event.key when Option composes a character
Composed == "\\u00a9"

\* the four bare modifier presses
ModifierEvents == {EvControl, EvAlt, EvShift, EvMeta}

KeyEvents == {EvCtrlL, EvCtrlM, EvA, EvX} \cup ModifierEvents

\* the element a key-down is dispatched to: the textarea, or the page body
Targets == {"textarea", "body"}

Durations == {TickMs, DefaultTimeoutDuration}

VARIABLES
  isMac,                   \* navigator.platform names a Mac
  extEnabled,              \* LyXHotkeyExtension.enabled
  lastActiveElement,       \* ElementDetector.lastActiveElement
  keySequence,             \* KeySequenceHandler.keySequence
  sequenceTimeout,         \* KeySequenceHandler.sequenceTimeout (timer handle or Null)
  sequenceTimeoutDuration, \* KeySequenceHandler.sequenceTimeoutDuration
  mappings,                \* KeySequenceHandler.mappings
  enabled,                 \* KeySequenceHandler.enabled
  timers,                  \* the host's pending timeouts
  nextTimerId,             \* the handle the next setTimeout returns
  value, selStart, selEnd, \* the focused textarea
  lastOp,                  \* the operation that ran last
  lastEvent,               \* the key-down event handled last
  lastFull,                \* fullSequence computed by the last processKeyEvent
  decision,                \* branch taken by the last key-down
  handled,                 \* return value of the last processKeyEvent
  emitted,                 \* actions emitted as 'actionExecute' by the last key-down
  defaultPrevented,        \* event.defaultPrevented of the last key-down
  lastTarget,              \* event.target of the last key-down
  execFailed,              \* the executor threw during the last key-down
  lastTableKind,           \* kind of the value the last setMappings was given
  swapped,                 \* was the table replaced while the sequence was pending
  lastFired,               \* handle of the timeout that fired last
  cancelRequested,         \* pending handles the recognizer was told to drop
  configText,              \* content given to the last LyXConfigParser.parse
  parseOptions,            \* options.mapMetaToCtrl given to the last parse
  keySequences,            \* LyXConfigParser.keySequences of the parser instance
  aliased,                 \* KeySequenceHandler.mappings is the parser's keySequences Map
  lastCombo,               \* result of the last getKeyCombo called on its own
  normSequence,            \* sequence given to the last normalizeKeySequence called on its own
  normOptions,             \* options.mapMetaToCtrl given to that call
  normalized,              \* what that call returned
  firstNormalize,          \* arguments and result of the first such call, and
                           \* whether a later call had the same arguments
  executed,                \* the Action executeAction was given last and the branch each
                           \* ActionExecutor took
  imported,                \* MappingManager.mappings
  skipped,                 \* keys the last importMappings removed as invalid
  settings,                \* ConfigurationManager.settings
  currentConfig,           \* ConfigurationManager.currentConfig
  managerMappings,         \* ConfigurationManager.mappings
  managerEvents,           \* events the ConfigurationManager emitted in its last operation
  calls,                   \* ConfigurationManager calls suspended at an await
  completed                \* the ConfigurationManager call that returned last

handlerVars == <<keySequence, sequenceTimeout, sequenceTimeoutDuration, mappings, enabled>>
hostVars == <<timers, nextTimerId>>
textVars == <<value, selStart, selEnd>>
keyVars == <<lastEvent, lastFull, decision, handled, emitted, defaultPrevented,
            lastTarget, execFailed>>
normVars == <<normSequence, normOptions, normalized, firstNormalize>>
execVars == <<executed, imported, skipped>>
managerVars == <<settings, currentConfig, managerMappings, managerEvents, calls, completed>>
toolVars == <<execVars, managerVars>>
parserVars == <<configText, parseOptions, keySequences, aliased, normVars, toolVars>>
vars == <<isMac, extEnabled, lastActiveElement, handlerVars, hostVars, textVars,
          lastOp, keyVars, swapped, lastFired, cancelRequested, lastTableKind,
          parserVars, lastCombo>>


(***************************************************************************)
(* KeySequenceHandler: pure parts                                          *)
(***************************************************************************)
NoCombo == ""          \* getKeyCombo's null

\* no executeAction call yet
NoExecution == [action |-> [type |-> "none"], core |-> "none", hotkeys |-> "none"]

\* this.settings of the ConfigurationManager constructor
DefaultSettings == [enabled |-> TRUE, sequenceTimeout |-> 1000, macMMapping |-> "ctrl"]

\* no ConfigurationManager call has returned
NoCompletion ==
  [kind |-> "none", macMMapping |-> "absent", changed |-> FALSE, position |-> "none",
   alone |-> TRUE]

\* no normalizeKeySequence call has been made
NoCall == [sequence |-> "", options |-> "absent", result |-> "", repeated |-> FALSE]

\* variant: the table holds the letters only
CodeToKey_LettersOnly(code) ==
  IF Len(code) = 4 /\ SubSeq(code, 1, 3) = "Key" /\ IndexIn(SubSeq(code, 4, 4), UpperChars) # 0
    THEN LowerChar(SubSeq(code, 4, 4))
  ELSE ""

\* the codeToKey table of getKeyCombo: KeyA..KeyZ, Digit0..Digit9, Space
CodeToKey(code) ==
  IF Len(code) = 4 /\ SubSeq(code, 1, 3) = "Key" /\ IndexIn(SubSeq(code, 4, 4), UpperChars) # 0
    THEN LowerChar(SubSeq(code, 4, 4))
  ELSE IF Len(code) = 6 /\ SubSeq(code, 1, 5) = "Digit" /\ IndexIn(SubSeq(code, 6, 6), DigitChars) # 0
    THEN SubSeq(code, 6, 6)
  ELSE IF code = "Space" THEN "space"
  ELSE ""

\* the keyNormalizations table of getKeyCombo
KeyNormalizations(key) ==
  CASE key = " " -> "space"
    [] key = "arrowleft" -> "left"
    [] key = "arrowright" -> "right"
    [] key = "arrowup" -> "up"
    [] key = "arrowdown" -> "down"
    [] key = "pageup" -> "prior"
    [] key = "pagedown" -> "next"
    [] OTHER -> key

ModifierParts(ev) ==
  (IF ev.ctrlKey THEN <<"ctrl">> ELSE <<>>) \o
  (IF ev.altKey THEN <<"alt">> ELSE <<>>) \o
  (IF ev.shiftKey THEN <<"shift">> ELSE <<>>) \o
  (IF ev.metaKey THEN <<"meta">> ELSE <<>>)

\* variant: a bare modifier press is not skipped
getKeyCombo_NoModifierSkip(ev, mac) ==
  LET key0 == ToLowerCase(ev.key)
      key1 == IF mac /\ ev.altKey /\ ~ev.ctrlKey /\ ~ev.metaKey /\ CodeToKey(ev.code) # ""
                THEN CodeToKey(ev.code) ELSE key0
      key == KeyNormalizations(key1)
  IN  Join(ModifierParts(ev) \o <<key>>, "+")

getKeyCombo(ev, mac) ==
  LET key0 == ToLowerCase(ev.key)
      key1 == IF mac /\ ev.altKey /\ ~ev.ctrlKey /\ ~ev.metaKey /\ CodeToKey(ev.code) # ""
                THEN CodeToKey(ev.code) ELSE key0
      key == KeyNormalizations(key1)
  IN  IF key \in {"control", "alt", "shift", "meta"} THEN NoCombo
      ELSE Join(ModifierParts(ev) \o <<key>>, "+")

\* findMatchingAction: Map.get; TRUE when the lookup yields an action
hasExactMatch(table, sequence) == sequence \in DOMAIN table

findMatchingAction(table, sequence) == table[sequence]

\* variant: the arguments of startsWith are swapped
hasPartialMatch_Swapped(table, sequence) ==
  \E key \in DOMAIN table : StartsWith(sequence \o " ", key)

hasPartialMatch(table, sequence) ==
  \E key \in DOMAIN table : StartsWith(key, sequence \o " ")

\* variant: an empty table is replaced by the default table
setMappings_DefaultsWhenEmpty(m) ==
  IF m.kind \in {"map", "object"} /\ m.entries # EmptyTable THEN m.entries
  ELSE IF m.kind \in {"map", "object"} THEN DefaultMappings
  ELSE EmptyTable

\* setMappings: a Map is kept, a plain object is converted, anything else
\* becomes an empty Map
setMappings(m) ==
  IF m.kind = "map" THEN m.entries
  ELSE IF m.kind = "object" THEN m.entries
  ELSE EmptyTable

\* clearTimeout(handle) on the host's timer queue
clearTimeout(queue, handle) == {t \in queue : t.id # handle}

TimerIds(queue) == {t.id : t \in queue}

(***************************************************************************)
(* ActionExecutor on a form field                                          *)
(***************************************************************************)
TextState(v, s, e) == [value |-> v, selStart |-> s, selEnd |-> e]

Slice(v, from, to) == SubSeq(v, from + 1, to)      \* String.prototype.slice

insertInFormField(text, el) ==
  LET newValue == Slice(el.value, 0, el.selStart) \o text \o
                  Slice(el.value, el.selEnd, Len(el.value))
      newCursorPos == el.selStart + Len(text)
  IN  TextState(newValue, newCursorPos, newCursorPos)

wrapSelectionInFormField(before, after, el) ==
  LET selectedText == Slice(el.value, el.selStart, el.selEnd)
      wrappedText == before \o selectedText \o after
      newValue == Slice(el.value, 0, el.selStart) \o wrappedText \o
                  Slice(el.value, el.selEnd, Len(el.value))
      newStart == el.selStart + Len(before)
  IN  TextState(newValue, newStart, newStart + Len(selectedText))

executeAction(action, el) ==
  IF action.type = "insert" THEN insertInFormField(action.text, el)
  ELSE IF action.type = "wrap" THEN wrapSelectionInFormField(action.before, action.after, el)
  ELSE el

\* the handlers subscribed to 'actionExecute', in subscription order: the
\* ActionExecutor's own listener, then the extension's listener
ActionExecuteListeners == <<"ActionExecutor", "LyXHotkeyExtension">>

\* one subscribed handler runs: executeAction on the target, or an
\* exception before the target is touched when the executor fails
runHandler(action, el, fails) == IF fails THEN el ELSE executeAction(action, el)

\* EventManager.emit('actionExecute', action, target): every subscribed
\* handler runs, each inside its own try / catch
RECURSIVE emitActionExecute(_, _, _, _)
emitActionExecute(listeners, action, el, fails) ==
  IF Len(listeners) = 0 THEN el
  ELSE emitActionExecute(Tail(listeners), action, runHandler(action, el, fails), fails)

\* variant: emit has no try / catch around the handler
emitRethrows_NoCatch(fails) == fails

\* does an exception thrown by a handler leave EventManager.emit: the catch
\* block logs it and the forEach goes on
emitRethrows(fails) == FALSE

\* what the extension's keydown listener does with the event's default
\* handling once processKeyEvent has returned
keyEventHandlerPreventsDefault(wasHandled) == FALSE


(***************************************************************************)
(* KeySequenceHandler: operations on the handler's fields h and the        *)
(* host's timer queue                                                      *)
(***************************************************************************)
HandlerState == [keySequence |-> keySequence, sequenceTimeout |-> sequenceTimeout,
                 sequenceTimeoutDuration |-> sequenceTimeoutDuration,
                 mappings |-> mappings, enabled |-> enabled]

\* variant: the timer is dropped but the collected combos are kept
clearSequence_KeepsKeys(h, queue) ==
  [h |-> [h EXCEPT !.sequenceTimeout = Null],
   queue |-> IF h.sequenceTimeout # Null THEN clearTimeout(queue, h.sequenceTimeout)
             ELSE queue]

clearSequence(h, queue) ==
  [h |-> [h EXCEPT !.keySequence = <<>>, !.sequenceTimeout = Null],
   queue |-> IF h.sequenceTimeout # Null THEN clearTimeout(queue, h.sequenceTimeout)
             ELSE queue]

\* setTimeout(callback, delay): the callback of processKeyEvent captures
\* fullSequence
setTimeout(queue, id, delay, fullSequence) ==
  queue \cup {[id |-> id, remaining |-> delay, seq |-> fullSequence]}

Outcome(h, queue, nextId, el, dec, ret, acts, full) ==
  [h |-> h, queue |-> queue, nextId |-> nextId, el |-> el, decision |-> dec,
   handled |-> ret, emitted |-> acts, full |-> full]

\* variant: the pending timeout is left running
cancelExisting_Skipped(h, queue) == queue

\* "Clear any existing timeout" of processKeyEvent
cancelExisting(h, queue) ==
  IF h.sequenceTimeout # Null THEN clearTimeout(queue, h.sequenceTimeout) ELSE queue

\* variant: a partial match is looked for before a complete one
matchKind_PartialFirst(table, fullSequence) ==
  IF hasPartialMatch(table, fullSequence) THEN "PartialMatch"
  ELSE IF hasExactMatch(table, fullSequence) THEN "ExactMatch"
  ELSE "NoMatch"

\* variant: a combo that breaks the pending sequence is looked up again on
\* its own as the start of a new sequence
matchKind_RestartsOnBreak(table, fullSequence) ==
  LET spaces == {i \in 1..Len(fullSequence) : SubSeq(fullSequence, i, i) = " "}
      last == IF spaces = {} THEN 0 ELSE CHOOSE i \in spaces : \A j \in spaces : j <= i
      combo == SubSeq(fullSequence, last + 1, Len(fullSequence))
  IN  IF hasExactMatch(table, fullSequence) THEN "ExactMatch"
      ELSE IF hasPartialMatch(table, fullSequence) THEN "PartialMatch"
      ELSE IF hasPartialMatch(table, combo) THEN "PartialMatch"
      ELSE "NoMatch"

\* the if / else-if chain of processKeyEvent: a complete match is looked
\* for first, then a partial one
matchKind(table, fullSequence) ==
  IF hasExactMatch(table, fullSequence) THEN "ExactMatch"
  ELSE IF hasPartialMatch(table, fullSequence) THEN "PartialMatch"
  ELSE "NoMatch"

processKeyEvent(h, queue, nextId, el, ev, mac, fails) ==
  LET keyCombo == getKeyCombo(ev, mac)
      pushed == [h EXCEPT !.keySequence = Append(@, keyCombo)]
      queue1 == cancelExisting(h, queue)
      fullSequence == Join(pushed.keySequence, " ")
      kind == matchKind(h.mappings, fullSequence)
  IN  IF ~h.enabled THEN
        Outcome(h, queue, nextId, el, "Ignored", FALSE, <<>>, "")
      ELSE IF keyCombo = NoCombo THEN
        Outcome(h, queue, nextId, el, "Ignored", FALSE, <<>>, "")
      ELSE IF kind = "ExactMatch" THEN
        LET action == findMatchingAction(h.mappings, fullSequence)
            cleared == clearSequence(pushed, queue1)
        IN  IF emitRethrows(fails) THEN
              \* the exception leaves processKeyEvent before clearSequence
              Outcome(pushed, queue1, nextId, el, "Threw", FALSE, <<action>>,
                      fullSequence)
            ELSE
              Outcome(cleared.h, cleared.queue, nextId,
                      emitActionExecute(ActionExecuteListeners, action, el, fails),
                      "ExactMatch", TRUE, <<action>>, fullSequence)
      ELSE IF kind = "PartialMatch" THEN
        Outcome([pushed EXCEPT !.sequenceTimeout = nextId],
                setTimeout(queue1, nextId, h.sequenceTimeoutDuration, fullSequence),
                nextId + 1, el, "PartialMatch", TRUE, <<>>, fullSequence)
      ELSE
        LET cleared == clearSequence(pushed, queue1)
        IN  Outcome(cleared.h, cleared.queue, nextId, el,
                    "NoMatch", FALSE, <<>>, fullSequence)

\* variant: the callback only forgets the handle
timeoutCallback_KeepsKeys(h, queue) ==
  [h |-> [h EXCEPT !.sequenceTimeout = Null], queue |-> queue]

\* the callback processKeyEvent hands to setTimeout
timeoutCallback(h, queue) == clearSequence(h, queue)

\* the keydown listener LyXHotkeyExtension registers on the document
keyEventHandler(h, queue, nextId, el, ev, mac, extOn, activeElement, target, fails) ==
  IF ~extOn THEN
    Outcome(h, queue, nextId, el, "Ignored", FALSE, <<>>, "")
  ELSE IF activeElement = "null" THEN
    Outcome(h, queue, nextId, el, "Ignored", FALSE, <<>>, "")
  ELSE processKeyEvent(h, queue, nextId, el, ev, mac, fails)

(***************************************************************************)
(* State machine                                                           *)
(***************************************************************************)
Init ==
  /\ isMac \in BOOLEAN
  /\ extEnabled = TRUE
  /\ lastActiveElement = "null"
  /\ keySequence = <<>>
  /\ sequenceTimeout = Null
  /\ sequenceTimeoutDuration = DefaultTimeoutDuration
  /\ mappings = EmptyTable
  /\ enabled = TRUE
  /\ timers = {}
  /\ nextTimerId = 1
  /\ value = ""
  /\ selStart = 0
  /\ selEnd = 0
  /\ lastOp = "init"
  /\ lastEvent = NoEvent
  /\ lastFull = ""
  /\ decision = "None"
  /\ handled = FALSE
  /\ emitted = <<>>
  /\ defaultPrevented = FALSE
  /\ swapped = "none"
  /\ lastFired = Null
  /\ cancelRequested = {}
  /\ lastTarget = "none"
  /\ execFailed = FALSE
  /\ lastTableKind = "none"
  /\ configText = ""
  /\ parseOptions = "absent"
  /\ keySequences = EmptyTable
  /\ aliased = FALSE
  /\ lastCombo = NoCombo
  /\ normSequence = ""
  /\ normOptions = "absent"
  /\ normalized = ""
  /\ firstNormalize = NoCall
  /\ executed = NoExecution
  /\ imported = EmptyTable
  /\ skipped = {}
  /\ settings = DefaultSettings
  /\ currentConfig = ""
  /\ managerMappings = EmptyTable
  /\ managerEvents = <<>>
  /\ calls = <<>>
  /\ completed = NoCompletion

\* no key-down result is on display after an operation other than a key-down
NoKeyResult ==
  /\ lastEvent' = NoEvent
  /\ lastFull' = ""
  /\ decision' = "None"
  /\ handled' = FALSE
  /\ emitted' = <<>>
  /\ defaultPrevented' = FALSE
  /\ lastTarget' = "none"
  /\ execFailed' = FALSE

SetHandler(h) ==
  /\ keySequence' = h.keySequence
  /\ sequenceTimeout' = h.sequenceTimeout
  /\ sequenceTimeoutDuration' = h.sequenceTimeoutDuration
  /\ mappings' = h.mappings
  /\ enabled' = h.enabled

\* a key-down event, dispatched to target, reaches the document's capture
\* listener; fails says whether the executor throws if it is run
KeyDown(ev, target, fails) ==
  /\ nextTimerId <= MaxTimerId
  /\ Len(value) <= MaxValueLen
  /\ \E out \in {keyEventHandler(HandlerState, timers, nextTimerId,
                                  TextState(value, selStart, selEnd), ev, isMac,
                                  extEnabled, lastActiveElement, target, fails)} :
         /\ fails => out.emitted # <<>>      \* the executor fails only when it runs
         /\ SetHandler(out.h)
         /\ timers' = out.queue
         /\ nextTimerId' = out.nextId
         /\ value' = out.el.value
         /\ selStart' = out.el.selStart
         /\ selEnd' = out.el.selEnd
         /\ lastEvent' = ev
         /\ lastFull' = out.full
         /\ decision' = out.decision
         /\ handled' = out.handled
         /\ emitted' = out.emitted
         /\ defaultPrevented' = keyEventHandlerPreventsDefault(out.handled)
         /\ execFailed' = fails
         /\ swapped' = IF out.decision = "Ignored" THEN swapped
                       ELSE IF swapped # "none" /\ keySequence # <<>> THEN "consumed"
                       ELSE "none"
         /\ cancelRequested' = cancelRequested \cap TimerIds(out.queue)
  /\ lastOp' = "keyDown"
  /\ lastTarget' = target
  /\ lastFired' = Null
  /\ lastTableKind' = "none"
  /\ UNCHANGED <<parserVars, lastCombo, isMac, extEnabled, lastActiveElement>>

\* the host runs the callback of a timeout that is due
TimeoutFire ==
  /\ \E t \in timers :
       /\ t.remaining <= 0
       /\ LET cleared == timeoutCallback(HandlerState, timers \ {t})
          IN  /\ SetHandler(cleared.h)
              /\ timers' = cleared.queue
              /\ cancelRequested' = cancelRequested \cap (TimerIds(cleared.queue) \cup {t.id})
       /\ lastFired' = t.id
       /\ lastTableKind' = "none"
  /\ swapped' = "none"
  /\ lastOp' = "timeoutFire"
  /\ NoKeyResult
  /\ UNCHANGED <<parserVars, lastCombo, isMac, extEnabled, lastActiveElement, nextTimerId, textVars>>

\* time passes; a timeout that is due runs before the clock moves on
Tick ==
  /\ timers # {}
  /\ \A t \in timers : t.remaining > 0
  /\ timers' = {[t EXCEPT !.remaining = @ - TickMs] : t \in timers}
  /\ lastOp' = "tick"
  /\ lastFired' = Null
  /\ lastTableKind' = "none"
  /\ NoKeyResult
  /\ UNCHANGED <<parserVars, lastCombo, isMac, extEnabled, lastActiveElement, handlerVars, nextTimerId,
                 textVars, swapped, cancelRequested>>

\* variant: replacing the table also aborts the pending sequence
SetMappings_Aborts(m) ==
  /\ LET cleared == clearSequence(HandlerState, timers)
     IN  /\ SetHandler([cleared.h EXCEPT !.mappings = setMappings(m)])
         /\ timers' = cleared.queue
         /\ cancelRequested' = cancelRequested \cap TimerIds(cleared.queue)
  /\ swapped' = "none"
  /\ lastOp' = "setMappings"
  /\ lastFired' = Null
  /\ lastTableKind' = m.kind
  /\ NoKeyResult
  /\ UNCHANGED <<parserVars, lastCombo, isMac, extEnabled, lastActiveElement, nextTimerId, textVars>>

\* variant: a value that is neither a Map nor an object is rejected and the
\* table in use is kept
SetMappings_KeepsOnInvalid(m) ==
  /\ mappings' = IF m.kind \in InvalidKinds THEN mappings ELSE setMappings(m)
  /\ swapped' = IF keySequence # <<>> THEN "pending" ELSE "none"
  /\ lastOp' = "setMappings"
  /\ lastFired' = Null
  /\ lastTableKind' = m.kind
  /\ NoKeyResult
  /\ UNCHANGED <<parserVars, lastCombo, isMac, extEnabled, lastActiveElement, keySequence,
                 sequenceTimeout, sequenceTimeoutDuration, enabled, hostVars, textVars,
                 cancelRequested>>

\* KeySequenceHandler.setMappings, also the 'mappingsUpdated' listener
SetMappings(m) ==
  /\ mappings' = setMappings(m)
  /\ swapped' = IF keySequence # <<>> THEN "pending" ELSE "none"
  /\ lastOp' = "setMappings"
  /\ lastFired' = Null
  /\ lastTableKind' = m.kind
  /\ NoKeyResult
  /\ UNCHANGED <<parserVars, lastCombo, isMac, extEnabled, lastActiveElement, keySequence, sequenceTimeout,
                 sequenceTimeoutDuration, enabled, hostVars, textVars, cancelRequested>>

\* variant: disabling also forgets the collected combos (the timeout is left)
SetEnabled_DropsSequence(b) ==
  /\ enabled' = b
  /\ keySequence' = IF b THEN keySequence ELSE <<>>
  /\ cancelRequested' = IF b THEN cancelRequested ELSE cancelRequested \cup TimerIds(timers)
  /\ lastOp' = IF b THEN "enable" ELSE "disable"
  /\ lastFired' = Null
  /\ lastTableKind' = "none"
  /\ NoKeyResult
  /\ UNCHANGED <<parserVars, lastCombo, isMac, extEnabled, lastActiveElement, sequenceTimeout,
                 sequenceTimeoutDuration, mappings, hostVars, textVars, swapped>>

\* KeySequenceHandler.setEnabled
SetEnabled(b) ==
  /\ enabled' = b
  /\ cancelRequested' = IF b THEN cancelRequested ELSE cancelRequested \cup TimerIds(timers)
  /\ lastOp' = IF b THEN "enable" ELSE "disable"
  /\ lastFired' = Null
  /\ lastTableKind' = "none"
  /\ NoKeyResult
  /\ UNCHANGED <<parserVars, lastCombo, isMac, extEnabled, lastActiveElement, keySequence, sequenceTimeout,
                 sequenceTimeoutDuration, mappings, hostVars, textVars, swapped>>

\* the 'enabledToggled' listener of KeySequenceHandler
EnabledToggled(b) ==
  /\ enabled' = b
  /\ cancelRequested' = IF b THEN cancelRequested ELSE cancelRequested \cup TimerIds(timers)
  /\ lastOp' = IF b THEN "enable" ELSE "disable"
  /\ lastFired' = Null
  /\ lastTableKind' = "none"
  /\ NoKeyResult
  /\ UNCHANGED <<parserVars, lastCombo, isMac, extEnabled, lastActiveElement, keySequence, sequenceTimeout,
                 sequenceTimeoutDuration, mappings, hostVars, textVars, swapped>>

\* the 'extensionToggled' message handler of LyXHotkeyExtension
ExtensionToggled(b) ==
  /\ extEnabled' = b
  /\ cancelRequested' = IF b THEN cancelRequested ELSE cancelRequested \cup TimerIds(timers)
  /\ lastOp' = IF b THEN "enable" ELSE "disable"
  /\ lastFired' = Null
  /\ lastTableKind' = "none"
  /\ NoKeyResult
  /\ UNCHANGED <<parserVars, lastCombo, isMac, lastActiveElement, handlerVars, hostVars, textVars, swapped>>

\* variant: the pending timeout is restarted with the new duration
SetSequenceTimeout_Reschedules(d) ==
  /\ sequenceTimeoutDuration' = d
  /\ timers' = {[t EXCEPT !.remaining = d] : t \in timers}
  /\ lastOp' = "setSequenceTimeout"
  /\ lastFired' = Null
  /\ lastTableKind' = "none"
  /\ NoKeyResult
  /\ UNCHANGED <<parserVars, lastCombo, isMac, extEnabled, lastActiveElement, keySequence,
                 sequenceTimeout, mappings, enabled, nextTimerId, textVars, swapped,
                 cancelRequested>>

\* KeySequenceHandler.setSequenceTimeout, also the 'sequenceTimeoutUpdated' listener
SetSequenceTimeout(d) ==
  /\ sequenceTimeoutDuration' = d
  /\ lastOp' = "setSequenceTimeout"
  /\ lastFired' = Null
  /\ lastTableKind' = "none"
  /\ NoKeyResult
  /\ UNCHANGED <<parserVars, lastCombo, isMac, extEnabled, lastActiveElement, keySequence, sequenceTimeout,
                 mappings, enabled, hostVars, textVars, swapped, cancelRequested>>

\* an explicit abort: KeySequenceHandler.clearSequence called from outside
ClearSequence ==
  /\ LET cleared == clearSequence(HandlerState, timers)
     IN  /\ SetHandler(cleared.h)
         /\ timers' = cleared.queue
         /\ cancelRequested' = cancelRequested \cap TimerIds(cleared.queue)
  /\ swapped' = "none"
  /\ lastOp' = "clearSequence"
  /\ lastFired' = Null
  /\ lastTableKind' = "none"
  /\ NoKeyResult
  /\ UNCHANGED <<parserVars, lastCombo, isMac, extEnabled, lastActiveElement, nextTimerId, textVars>>

\* ElementDetector.handleFocus / handleClick on an editable element
ElementActivated ==
  /\ lastActiveElement' = "textarea"
  /\ lastOp' = "elementActivated"
  /\ lastFired' = Null
  /\ lastTableKind' = "none"
  /\ NoKeyResult
  /\ UNCHANGED <<parserVars, lastCombo, isMac, extEnabled, handlerVars, hostVars, textVars, swapped,
                 cancelRequested>>

\* the page empties the textarea (textarea.value = '')
ResetText ==
  /\ value # ""
  /\ value' = ""
  /\ selStart' = 0
  /\ selEnd' = 0
  /\ lastOp' = "resetText"
  /\ lastFired' = Null
  /\ lastTableKind' = "none"
  /\ NoKeyResult
  /\ UNCHANGED <<parserVars, lastCombo, isMac, extEnabled, lastActiveElement, handlerVars, hostVars, swapped,
                 cancelRequested>>

Next ==
  \/ \E ev \in KeyEvents, target \in Targets, fails \in BOOLEAN : KeyDown(ev, target, fails)
  \/ TimeoutFire
  \/ Tick
  \/ \E m \in MappingValues : SetMappings(m)
  \/ \E b \in BOOLEAN : SetEnabled(b)
  \/ \E b \in BOOLEAN : EnabledToggled(b)
  \/ \E b \in BOOLEAN : ExtensionToggled(b)
  \/ \E d \in Durations : SetSequenceTimeout(d)
  \/ ClearSequence
  \/ ElementActivated
  \/ ResetText

Spec == Init /\ [][Next]_vars


(***************************************************************************)
(* LyXConfigParser (lyx-parser.js): string helpers                         *)
(***************************************************************************)
WhiteSpace == {" ", "\t", "\r", "\n"}

CharAt(s, i) == SubSeq(s, i, i)

\* position of the first c at or after position i, 0 when there is none
RECURSIVE IndexOfFrom(_, _, _)
IndexOfFrom(s, c, i) ==
  IF i > Len(s) THEN 0
  ELSE IF CharAt(s, i) = c THEN i
  ELSE IndexOfFrom(s, c, i + 1)

\* String.prototype.split on a one-character separator
RECURSIVE Split(_, _)
Split(s, sep) ==
  IF IndexOfFrom(s, sep, 1) = 0 THEN <<s>>
  ELSE <<SubSeq(s, 1, IndexOfFrom(s, sep, 1) - 1)>> \o
       Split(SubSeq(s, IndexOfFrom(s, sep, 1) + 1, Len(s)), sep)

RECURSIVE TrimStart(_)
TrimStart(s) ==
  IF Len(s) > 0 /\ CharAt(s, 1) \in WhiteSpace THEN TrimStart(SubSeq(s, 2, Len(s))) ELSE s

RECURSIVE TrimEnd(_)
TrimEnd(s) ==
  IF Len(s) > 0 /\ CharAt(s, Len(s)) \in WhiteSpace THEN TrimEnd(SubSeq(s, 1, Len(s) - 1))
  ELSE s

Trim(s) == TrimEnd(TrimStart(s))                    \* String.prototype.trim

Substring(s, from) == SubSeq(s, from + 1, Len(s))   \* String.prototype.substring(from)

\* String.prototype.replace with a global pattern that is a literal text
RECURSIVE ReplaceAll(_, _, _)
ReplaceAll(s, pat, rep) ==
  IF Len(s) < Len(pat) THEN s
  ELSE IF StartsWith(s, pat)
    THEN rep \o ReplaceAll(SubSeq(s, Len(pat) + 1, Len(s)), pat, rep)
  ELSE SubSeq(s, 1, 1) \o ReplaceAll(SubSeq(s, 2, Len(s)), pat, rep)

\* position of the first character at or after i that is not white space
RECURSIVE SkipSpaces(_, _)
SkipSpaces(s, i) ==
  IF i <= Len(s) /\ CharAt(s, i) \in WhiteSpace THEN SkipSpaces(s, i + 1) ELSE i

(***************************************************************************)
(* LyXConfigParser: convertCommand                                         *)
(***************************************************************************)
Wrap(before, after) == [type |-> "wrap", before |-> before, after |-> after]
Insert(text) == [type |-> "insert", text |-> text]
Operation(type, action) == [type |-> type, action |-> action]

NoAction == [type |-> "null"]      \* convertCommand's null

\* the commandMappings object of convertCommand; the backquote and the
\* characters outside ASCII are written as their escape text
CommandMappings ==
  ("font-bold" :> Wrap("**", "**")) @@
  ("font-emph" :> Wrap("*", "*")) @@
  ("font-underline" :> Wrap("_", "_")) @@
  ("font-typewriter" :> Wrap("\\u0060", "\\u0060")) @@
  ("font-strikeout" :> Wrap("~~", "~~")) @@
  ("math-mode" :> Wrap("$", "$")) @@
  ("math-display" :> Wrap("$$\n", "\n$$")) @@
  ("quote-insert inner" :> Insert("\"")) @@
  ("quote-insert outer auto plain" :> Insert("'")) @@
  ("specialchar-insert hyphenation" :> Insert("\\u00AD")) @@
  ("specialchar-insert nobreakdash" :> Insert("\\u2011")) @@
  ("specialchar-insert ligature-break" :> Insert("\\u200C")) @@
  ("specialchar-insert slash" :> Insert("/")) @@
  ("specialchar-insert end-of-sentence" :> Insert(". ")) @@
  ("specialchar-insert dots" :> Insert("\\u2026")) @@
  ("space-insert protected" :> Insert("\\u00A0")) @@
  ("space-insert normal" :> Insert(" ")) @@
  ("space-insert thin" :> Insert("\\u2009")) @@
  ("ert-insert" :> Wrap("\\", "")) @@
  ("paragraph-break" :> Insert("\n\n")) @@
  ("paragraph-break inverse" :> Insert("\n")) @@
  ("newline-insert newline" :> Insert("\n")) @@
  ("newline-insert linebreak" :> Insert("\\\\\n")) @@
  ("char-forward" :> Operation("navigation", "moveRight")) @@
  ("char-backward" :> Operation("navigation", "moveLeft")) @@
  ("word-right" :> Operation("navigation", "moveWordRight")) @@
  ("word-left" :> Operation("navigation", "moveWordLeft")) @@
  ("line-begin" :> Operation("navigation", "moveLineStart")) @@
  ("line-end" :> Operation("navigation", "moveLineEnd")) @@
  ("buffer-begin" :> Operation("navigation", "moveDocumentStart")) @@
  ("buffer-end" :> Operation("navigation", "moveDocumentEnd")) @@
  ("char-right-select" :> Operation("selection", "selectRight")) @@
  ("char-left-select" :> Operation("selection", "selectLeft")) @@
  ("word-right-select" :> Operation("selection", "selectWordRight")) @@
  ("word-left-select" :> Operation("selection", "selectWordLeft")) @@
  ("line-begin-select" :> Operation("selection", "selectLineStart")) @@
  ("line-end-select" :> Operation("selection", "selectLineEnd")) @@
  ("buffer-begin-select" :> Operation("selection", "selectDocumentStart")) @@
  ("buffer-end-select" :> Operation("selection", "selectDocumentEnd")) @@
  ("char-delete-forward" :> Operation("delete", "deleteRight")) @@
  ("char-delete-backward" :> Operation("delete", "deleteLeft")) @@
  ("word-delete-forward" :> Operation("delete", "deleteWordRight")) @@
  ("word-delete-backward" :> Operation("delete", "deleteWordLeft")) @@
  ("line-delete-forward" :> Operation("delete", "deleteLineForward")) @@
  ("copy" :> Operation("clipboard", "copy")) @@
  ("paste" :> Operation("clipboard", "paste")) @@
  ("cut" :> Operation("clipboard", "cut")) @@
  ("undo" :> Operation("edit", "undo")) @@
  ("redo" :> Operation("edit", "redo"))

\* names every object literal inherits from Object.prototype: a lookup of
\* one of them in commandMappings yields a value that is not null
InheritedNames ==
  {"constructor", "toString", "toLocaleString", "valueOf", "hasOwnProperty",
   "isPrototypeOf", "propertyIsEnumerable", "__proto__", "__defineGetter__",
   "__defineSetter__", "__lookupGetter__", "__lookupSetter__"}

Inherited(name) == [type |-> "undefined", inherited |-> name]

\* variant: the text of a math-insert action is the whole command
convertCommand_KeepsPrefix(command) ==
  IF StartsWith(command, "math-insert ") THEN Insert(command)
  ELSE IF command \in DOMAIN CommandMappings THEN CommandMappings[command]
  ELSE IF command \in InheritedNames THEN Inherited(command)
  ELSE NoAction

convertCommand(command) ==
  IF StartsWith(command, "math-insert ")
    THEN Insert(Substring(command, Len("math-insert ")))
  ELSE IF command \in DOMAIN CommandMappings THEN CommandMappings[command]
  ELSE IF command \in InheritedNames THEN Inherited(command)
  ELSE NoAction

(***************************************************************************)
(* LyXConfigParser: parse                                                  *)
(***************************************************************************)
NoBinding == [originalKey |-> "", command |-> ""]     \* parseBindLine's null

Binding(key, command) == [originalKey |-> key, command |-> command]

\* the pattern  \\bind\s+"([^"]+)"\s+"([^"]+)"  tried at position i of line
MatchBindAt(line, i) ==
  IF i + 4 > Len(line) \/ SubSeq(line, i, i + 4) # "\\bind" THEN NoBinding
  ELSE
    LET q1 == SkipSpaces(line, i + 5)
        q2 == IndexOfFrom(line, "\"", q1 + 1)
        q3 == SkipSpaces(line, q2 + 1)
        q4 == IndexOfFrom(line, "\"", q3 + 1)
    IN  IF /\ q1 > i + 5 /\ q1 <= Len(line) /\ CharAt(line, q1) = "\""
           /\ q2 > q1 + 1
           /\ q3 > q2 + 1 /\ q3 <= Len(line) /\ CharAt(line, q3) = "\""
           /\ q4 > q3 + 1
          THEN Binding(SubSeq(line, q1 + 1, q2 - 1), SubSeq(line, q3 + 1, q4 - 1))
        ELSE NoBinding

\* line.match(...): the leftmost position at which the pattern matches
RECURSIVE MatchBindFrom(_, _)
MatchBindFrom(line, i) ==
  IF i > Len(line) THEN NoBinding
  ELSE IF MatchBindAt(line, i) # NoBinding THEN MatchBindAt(line, i)
  ELSE MatchBindFrom(line, i + 1)

\* variant: the two captures are taken in the other order
parseBindLine_Swapped(line) ==
  IF MatchBindFrom(line, 1) = NoBinding THEN NoBinding
  ELSE Binding(MatchBindFrom(line, 1).command, MatchBindFrom(line, 1).originalKey)

parseBindLine(line) == MatchBindFrom(line, 1)

\* variant: the first pass stops at the first line that is not skipped and
\* is not a bind statement
RECURSIVE collectBindings_StopsAtMalformed(_)
collectBindings_StopsAtMalformed(lines) ==
  IF Len(lines) = 0 THEN <<>>
  ELSE
    LET line == Trim(lines[1])
        rest == collectBindings_StopsAtMalformed(Tail(lines))
    IN  IF \/ StartsWith(line, "#") \/ StartsWith(line, "Format") \/ line = ""
           \/ StartsWith(line, "\\bind_file")
          THEN rest
        ELSE IF StartsWith(line, "\\bind ") /\ parseBindLine(line) # NoBinding
          THEN <<parseBindLine(line)>> \o rest
        ELSE <<>>

\* the first pass of parse over the lines of the content
RECURSIVE collectBindings(_)
collectBindings(lines) ==
  IF Len(lines) = 0 THEN <<>>
  ELSE
    LET line == Trim(lines[1])
        rest == collectBindings(Tail(lines))
    IN  IF \/ StartsWith(line, "#") \/ StartsWith(line, "Format") \/ line = ""
           \/ StartsWith(line, "\\bind_file")
          THEN rest
        ELSE IF StartsWith(line, "\\bind ") /\ parseBindLine(line) # NoBinding
          THEN <<parseBindLine(line)>> \o rest
        ELSE rest

\* options.mapMetaToCtrl as the caller passed it
ParseOptions == {"true", "false", "absent"}

\* variant: an omitted option counts as false
macMapMetaToCtrl_Strict(opt) == opt = "true"

\* macOptions.mapMetaToCtrl of normalizeKeySequence: options.mapMetaToCtrl !== false
macMapMetaToCtrl(opt) == opt # "false"

\* the chain of replacements that changes key names; the replacements of
\* the chain that put a name back unchanged are left out
KeyNameReplacements ==
  <<<<"return", "enter">>, <<"prior", "pageup">>, <<"next", "pagedown">>,
    <<"left", "arrowleft">>, <<"right", "arrowright">>, <<"up", "arrowup">>,
    <<"down", "arrowdown">>>>

RECURSIVE ApplyReplacements(_, _)
ApplyReplacements(s, reps) ==
  IF Len(reps) = 0 THEN s
  ELSE ApplyReplacements(ReplaceAll(s, reps[1][1], reps[1][2]), Tail(reps))

normalizeKeySequence(sequence, opt, mac) ==
  LET n1 == ReplaceAll(ReplaceAll(ReplaceAll(sequence, "C-", "ctrl+"), "S-", "shift+"),
                       "~S-", "")
      n2 == IF mac /\ macMapMetaToCtrl(opt)
              THEN ReplaceAll(ReplaceAll(n1, "M-", "ctrl+"), "A-", "alt+")
            ELSE IF mac
              THEN ReplaceAll(ReplaceAll(n1, "M-", "meta+"), "A-", "alt+")
            ELSE ReplaceAll(ReplaceAll(n1, "M-", "alt+"), "A-", "alt+")
  IN  ApplyReplacements(ToLowerCase(n2), KeyNameReplacements)

\* commonMacKeys of resolveConflictsAndBuild
CommonMacKeys == {"m", "n", "o", "p", "q", "r", "s", "t", "w"}

\* the "Mac Command mapping mode" test: isMac && !options.mapMetaToCtrl
commandMappingMode(opt, mac) == mac /\ opt # "true"

Range(seq) == {seq[i] : i \in 1..Len(seq)}

\* metaKeys: the base keys of the bindings whose key starts with M-
metaKeys(rawBindings) ==
  {Substring(b.originalKey, 2) : b \in {r \in Range(rawBindings) : StartsWith(r.originalKey, "M-")}}

\* ctrlKeysToPromote: C- keys of a common Mac key without an M- binding
ctrlKeysToPromote(rawBindings, opt, mac) ==
  IF ~commandMappingMode(opt, mac) THEN {}
  ELSE {b.originalKey : b \in
          {r \in Range(rawBindings) :
             /\ StartsWith(r.originalKey, "C-")
             /\ Substring(r.originalKey, 2) \in CommonMacKeys
             /\ Substring(r.originalKey, 2) \notin metaKeys(rawBindings)}}

\* variant: a C- key is dropped whenever an M- binding of the same base key
\* comes later in the file
conflictingCtrlKeys_LaterOnly(rawBindings, opt, mac) ==
  IF ~commandMappingMode(opt, mac) THEN {}
  ELSE {rawBindings[i].originalKey : i \in
          {j \in 1..Len(rawBindings) :
             /\ StartsWith(rawBindings[j].originalKey, "C-")
             /\ \E k \in (j + 1)..Len(rawBindings) :
                  /\ rawBindings[k].originalKey =
                       "M-" \o Substring(rawBindings[j].originalKey, 2)
                  /\ rawBindings[k].command = rawBindings[j].command}}
       \cup ctrlKeysToPromote(rawBindings, opt, mac)

\* conflictingCtrlKeys: C- keys with an M- binding of the same base key and
\* command, and the C- keys that are promoted
conflictingCtrlKeys(rawBindings, opt, mac) ==
  IF ~commandMappingMode(opt, mac) THEN {}
  ELSE {b.originalKey : b \in
          {r \in Range(rawBindings) :
             /\ StartsWith(r.originalKey, "C-")
             /\ \E other \in Range(rawBindings) :
                  /\ other.originalKey = "M-" \o Substring(r.originalKey, 2)
                  /\ other.command = r.command}}
       \cup ctrlKeysToPromote(rawBindings, opt, mac)

\* variant: an entry that is already in the table is kept
MapSet_KeepsFirst(table, key, val) == table @@ (key :> val)

\* Map.prototype.set
MapSet(table, key, val) == (key :> val) @@ table

\* variant: a promoted binding is entered under its ctrl+ key
promotedKey_Ctrl(baseKey) == "ctrl+" \o baseKey

\* the key a promoted binding is entered under
promotedKey(baseKey) == "meta+" \o baseKey

\* the second pass of resolveConflictsAndBuild, from binding i on
RECURSIVE buildFrom(_, _, _, _, _, _, _)
buildFrom(rawBindings, i, table, conflicting, promote, opt, mac) ==
  IF i > Len(rawBindings) THEN table
  ELSE
    LET binding == rawBindings[i]
        action == convertCommand(binding.command)
        next ==
          IF binding.originalKey \in conflicting THEN
            IF binding.originalKey \in promote /\ action # NoAction
              THEN MapSet(table, promotedKey(Substring(binding.originalKey, 2)), action)
            ELSE table
          ELSE IF action # NoAction
            THEN MapSet(table, normalizeKeySequence(binding.originalKey, opt, mac), action)
          ELSE table
    IN  buildFrom(rawBindings, i + 1, next, conflicting, promote, opt, mac)

resolveConflictsAndBuild(rawBindings, opt, mac) ==
  buildFrom(rawBindings, 1, EmptyTable,
            conflictingCtrlKeys(rawBindings, opt, mac),
            ctrlKeysToPromote(rawBindings, opt, mac), opt, mac)

\* parse(content, options): what this.keySequences holds on return
parse(content, opt, mac) ==
  resolveConflictsAndBuild(collectBindings(Split(content, "\n")), opt, mac)

(***************************************************************************)
(* A parser instance that is used again and again, as the options page     *)
(* does in parseCurrentConfig, and a recognizer that is handed the Map     *)
(* parse returned                                                          *)
(***************************************************************************)
BindLine(key, command) == "\\bind \"" \o key \o "\" \"" \o command \o "\""

TwoLines(a, b) == a \o "\n" \o b

\* one bind line: C-<k> for the common Mac keys and for b, and a few others
SingleConfigs ==
  {BindLine("C-" \o k, "math-mode") : k \in CommonMacKeys \cup {"b"}} \cup
  {BindLine("M-m", "math-mode"), BindLine("C-b", "font-bold"),
   BindLine("C-m", "no-such-command")}

\* keys bound under C- and under M- in one config
PairKeys == {"b", "m", "Up", "Prior"}

\* C-<k> and M-<k> bound to the same command, in both orders; C-m and M-m
\* bound to different commands; C-m bound twice
PairConfigs ==
  {TwoLines(BindLine("C-" \o k, "font-bold"), BindLine("M-" \o k, "font-bold")) :
     k \in PairKeys} \cup
  {TwoLines(BindLine("M-" \o k, "font-bold"), BindLine("C-" \o k, "font-bold")) :
     k \in PairKeys} \cup
  {TwoLines(BindLine("C-m", "math-mode"), BindLine("M-m", "font-bold")),
   TwoLines(BindLine("M-m", "font-bold"), BindLine("C-m", "math-mode")),
   TwoLines(BindLine("C-m", "math-mode"), BindLine("C-m", "font-bold"))}

\* a file with a header, a comment, a blank line and an include
FileConfig ==
  "Format 5\n# math bindings\n\n\\bind_file \"math\"\n  " \o
  TwoLines(BindLine("C-m", "math-mode"), BindLine("M-b", "font-bold")) \o "\n"

\* one bind line whose command is a name that commandMappings inherits
InheritedCommandConfigs ==
  {BindLine("C-x", "constructor"), BindLine("C-y", "__proto__")}

\* bind lines between lines that are not bind statements: a missing
\* command, a missing backslash, an unterminated command, an empty key, a
\* tab after \bind, plain text
MalformedConfig ==
  BindLine("C-b", "font-bold") \o "\n" \o
  "\\bind \"C-i\"\n" \o
  "bind \"C-u\" \"font-underline\"\n" \o
  "\\bind \"C-e\" \"font-emph\n" \o
  "\\bind \"\" \"undo\"\n" \o
  "\\bind\t\"C-t\" \"font-typewriter\"\n" \o
  "hello world\r\n" \o
  BindLine("A-g", "math-insert \\alpha") \o " trailing\r\n" \o
  BindLine("C-m", "math-mode")

\* a text without any valid bind line
NoBindConfig == "# nothing\n\\bind \"C-i\"\n\nhello world"

\* C-m bound next to a multi-key sequence that starts with M-m
SequenceConfigs ==
  {TwoLines(BindLine("C-m", "math-mode"), BindLine("M-m g a", "math-insert \\alpha"))}

Configs ==
  SingleConfigs \cup PairConfigs \cup InheritedCommandConfigs \cup SequenceConfigs \cup
  {"", FileConfig, MalformedConfig, NoBindConfig}

\* parser.parse(content, options) on the one parser instance: keySequences
\* is cleared and filled again, and whoever holds that Map sees the change
Parse(content, opt) ==
  /\ \E table \in {parse(content, opt, isMac)} :
       /\ keySequences' = table
       /\ mappings' = IF aliased THEN table ELSE mappings
  /\ configText' = content
  /\ parseOptions' = opt
  /\ lastOp' = "parse"
  /\ lastTableKind' = "none"
  /\ UNCHANGED <<aliased, normVars, toolVars, lastCombo, isMac, extEnabled, lastActiveElement,
                 keySequence, sequenceTimeout, sequenceTimeoutDuration, enabled, hostVars,
                 textVars, keyVars, swapped, lastFired, cancelRequested>>

\* KeySequenceHandler.setMappings called with the Map parse returned
SetMappingsParsed ==
  /\ lastOp # "init"                  \* parse has returned
  /\ mappings' = setMappings([kind |-> "map", entries |-> keySequences])
  /\ aliased' = TRUE
  /\ lastOp' = "setMappings"
  /\ lastTableKind' = "map"
  /\ UNCHANGED <<configText, parseOptions, keySequences, normVars, toolVars, lastCombo, isMac,
                 extEnabled, lastActiveElement, keySequence, sequenceTimeout,
                 sequenceTimeoutDuration, enabled, hostVars, textVars, keyVars, swapped,
                 lastFired, cancelRequested>>

ParserNext ==
  \/ \E content \in Configs, opt \in ParseOptions : Parse(content, opt)
  \/ SetMappingsParsed

ParserSpec == Init /\ [][ParserNext]_vars

(***************************************************************************)
(* normalizeKeySequence called on its own on a parser instance that also   *)
(* parses                                                                  *)
(***************************************************************************)
\* key specs with one modifier and with two
ModifierSpecs ==
  {"C-a", "S-a", "M-a", "A-a", "C-S-a", "C-M-a", "M-S-a", "M-A-a"}

\* key specs with the "shift must not be held" qualifier
NotShiftSpecs == {"~S-a", "~S-C-a", "~S-M-S-a"}

\* key specs with a named key
NamedKeySpecs ==
  {"Return", "Prior", "C-Prior", "Next", "Left", "Right", "Up", "Down", "Home", "End"}

KeySpecs == ModifierSpecs \cup NotShiftSpecs \cup NamedKeySpecs

\* normalizeKeySequence on the key specs, for every option value and
\* platform, computed once and kept as an explicit table
NormalizedSpecs ==
  [x \in KeySpecs \X ParseOptions \X BOOLEAN |-> normalizeKeySequence(x[1], x[2], x[3])]
    @@ EmptyTable

\* variant: the options parse stored in this.options are used, as the
\* legacy parseBind does
Normalize_UsesStoredOptions(sequence, opt) ==
  /\ \E out \in {NormalizedSpecs[<<sequence, parseOptions, isMac>>]} :
       /\ normalized' = out
       /\ firstNormalize' =
            IF firstNormalize = NoCall
              THEN [sequence |-> sequence, options |-> opt, result |-> out,
                    repeated |-> FALSE]
            ELSE IF firstNormalize.sequence = sequence /\ firstNormalize.options = opt
              THEN [firstNormalize EXCEPT !.repeated = TRUE]
            ELSE firstNormalize
  /\ normSequence' = sequence
  /\ normOptions' = opt
  /\ lastOp' = "normalize"
  /\ UNCHANGED <<configText, parseOptions, keySequences, aliased, toolVars, lastCombo, isMac,
                 extEnabled, lastActiveElement, handlerVars, hostVars, textVars, keyVars,
                 swapped, lastFired, cancelRequested, lastTableKind>>

\* parser.normalizeKeySequence(sequence, options)
Normalize(sequence, opt) ==
  /\ \E out \in {NormalizedSpecs[<<sequence, opt, isMac>>]} :
       /\ normalized' = out
       /\ firstNormalize' =
            IF firstNormalize = NoCall
              THEN [sequence |-> sequence, options |-> opt, result |-> out,
                    repeated |-> FALSE]
            ELSE IF firstNormalize.sequence = sequence /\ firstNormalize.options = opt
              THEN [firstNormalize EXCEPT !.repeated = TRUE]
            ELSE firstNormalize
  /\ normSequence' = sequence
  /\ normOptions' = opt
  /\ lastOp' = "normalize"
  /\ UNCHANGED <<configText, parseOptions, keySequences, aliased, toolVars, lastCombo, isMac,
                 extEnabled, lastActiveElement, handlerVars, hostVars, textVars, keyVars,
                 swapped, lastFired, cancelRequested, lastTableKind>>

\* the text parsed between two normalizeKeySequence calls
NormalizeConfigs == {BindLine("M-m", "math-mode")}

NormalizeNext ==
  \/ \E sequence \in KeySpecs, opt \in ParseOptions : Normalize(sequence, opt)
  \/ \E content \in NormalizeConfigs, opt \in ParseOptions : Parse(content, opt)

NormalizeSpec == Init /\ [][NormalizeNext]_vars

(***************************************************************************)
(* Vocabulary of the properties                                            *)
(***************************************************************************)
\* the step is a key-down that reaches processKeyEvent with the recognizer
\* enabled and yields a KeyCombo
ForwardedKeyDown ==
  /\ lastOp' = "keyDown"
  /\ extEnabled /\ enabled /\ lastActiveElement # "null"
  /\ getKeyCombo(lastEvent', isMac) # NoCombo

\* the KeyCombo of the step's key-down
Combo == getKeyCombo(lastEvent', isMac)

\* pendingSequence extended with the step's KeyCombo, serialized
Extended == Join(Append(keySequence, Combo), " ")

IsKey(table, s) == s \in DOMAIN table
IsPrefix(table, s) == \E key \in DOMAIN table : StartsWith(key, s \o " ")

Quiet == keySequence' = <<>> /\ sequenceTimeout' = Null /\ timers' = {}

(***************************************************************************)
(* C1  Sequence accumulation: with the recognizer enabled, nothing         *)
(* pending and a table that binds 'k1 k2' but not 'k1', the key-down for   *)
(* k1 is a PartialMatch (handled, no action emitted, a timeout of the      *)
(* configured duration scheduled); a key-down for k2 that arrives while    *)
(* that timeout is still pending is an ExactMatch: the action bound to     *)
(* 'k1 k2' is emitted and nothing is pending afterwards.                   *)
(***************************************************************************)
C1_First ==
  (/\ ForwardedKeyDown
   /\ keySequence = <<>>
   /\ ~IsKey(mappings, Combo)
   /\ IsPrefix(mappings, Combo))
  => /\ decision' = "PartialMatch"
     /\ handled'
     /\ emitted' = <<>>
     /\ keySequence' = <<Combo>>
     /\ sequenceTimeout' # Null
     /\ timers' = {[id |-> sequenceTimeout', remaining |-> sequenceTimeoutDuration,
                    seq |-> Combo]}
     /\ UNCHANGED textVars

C1_Second ==
  (/\ ForwardedKeyDown
   /\ Len(keySequence) = 1
   /\ sequenceTimeout \in TimerIds(timers)
   /\ IsKey(mappings, Extended))
  => /\ decision' = "ExactMatch"
     /\ handled'
     /\ emitted' = <<mappings[Extended]>>
     /\ Quiet

C1_SequenceAccumulation == [][C1_First /\ C1_Second]_vars

C1_Witness ==
  /\ decision = "ExactMatch"
  /\ lastFull = "ctrl+l a"
  /\ mappings = SequenceTable
  /\ swapped = "none"
  /\ emitted = <<InsertAlpha>>
  /\ keySequence = <<>>

(***************************************************************************)
(* C2  NoMatch clears immediately: a key-down whose extended sequence is   *)
(* neither a table key nor, followed by a space, a prefix of one yields    *)
(* NoMatch and leaves nothing pending and no timer; the key-down after a   *)
(* NoMatch is evaluated as a sequence of its own combo only.               *)
(***************************************************************************)
C2_Clears ==
  (/\ ForwardedKeyDown
   /\ ~IsKey(mappings, Extended)
   /\ ~IsPrefix(mappings, Extended))
  => /\ decision' = "NoMatch"
     /\ ~handled'
     /\ emitted' = <<>>
     /\ lastFull' = Extended
     /\ Quiet

C2_NextIsFresh ==
  (decision = "NoMatch" /\ ForwardedKeyDown) => lastFull' = Combo

C2_NoMatchClears == [][C2_Clears /\ C2_NextIsFresh]_vars

C2_Witness ==
  /\ decision = "NoMatch"
  /\ lastFull = "ctrl+l x"
  /\ keySequence = <<>>
  /\ timers = {}

(***************************************************************************)
(* C3  Timeout expiry: a PartialMatch schedules a timeout of the           *)
(* configured duration for the pending sequence; when it fires (it was     *)
(* due and no key-down had replaced it) nothing is pending afterwards,     *)
(* and the next key-down is evaluated as a sequence of its own combo only. *)
(***************************************************************************)
C3_Scheduled ==
  decision' = "PartialMatch" =>
    \E t \in timers' : /\ t.id = sequenceTimeout'
                       /\ t.remaining = sequenceTimeoutDuration
                       /\ t.seq = lastFull'
                       /\ t.seq = Join(keySequence', " ")

C3_FireClears ==
  lastOp' = "timeoutFire" =>
    /\ \E t \in timers : /\ t.id = lastFired'
                         /\ t.remaining <= 0
                         /\ t.seq = Join(keySequence, " ")
    /\ keySequence # <<>>
    /\ Quiet

C3_NextIsFresh ==
  (lastOp = "timeoutFire" /\ ForwardedKeyDown) => lastFull' = Combo

C4_DisableClearsState ==
  lastOp = "disable" => (keySequence = <<>> /\ sequenceTimeout = Null /\ timers = {})

(***************************************************************************)
(* C5  Single timer: at most one sequence timeout is pending, and it is    *)
(* the one whose handle the recognizer holds and that was scheduled for    *)
(* the sequence now pending; so a timeout is never scheduled next to       *)
(* another one.                                                            *)
(***************************************************************************)
C5_SingleTimer ==
  /\ Cardinality(timers) <= 1
  /\ \A t \in timers : t.id = sequenceTimeout /\ t.seq = Join(keySequence, " ")

\* a timeout was rescheduled: a second PartialMatch replaced the timer of the first
C5_Witness ==
  /\ decision = "PartialMatch"
  /\ Len(keySequence) = 2
  /\ sequenceTimeout > 1
  /\ Cardinality(timers) = 1

(***************************************************************************)
(* C6  No firing after cancellation: a timeout that the recognizer was     *)
(* told to drop (it was pending when the recognizer was disabled, or when  *)
(* the sequence was aborted or decided) never runs its callback.           *)
(***************************************************************************)
C6_NoFiringAfterCancel ==
  lastOp = "timeoutFire" => lastFired \notin cancelRequested

(***************************************************************************)
(* C7  setMappings preserves in-flight state: replacing the table changes  *)
(* neither the pending sequence nor the pending timer, and the next        *)
(* key-down is classified by looking up the old pending sequence extended  *)
(* with the new combo in the new table.                                    *)
(***************************************************************************)
C7_Frame ==
  lastOp' = "setMappings" =>
    UNCHANGED <<keySequence, sequenceTimeout, sequenceTimeoutDuration, enabled, timers>>

C7_NextKeyDown ==
  (swapped = "pending" /\ ForwardedKeyDown) =>
    /\ lastFull' = Extended
    /\ decision' = IF IsKey(mappings, Extended) THEN "ExactMatch"
                   ELSE IF IsPrefix(mappings, Extended) THEN "PartialMatch"
                   ELSE "NoMatch"
    /\ decision' = "ExactMatch" => emitted' = <<mappings[Extended]>>

C7_SetMappingsPreservesInFlight == [][C7_Frame /\ C7_NextKeyDown]_vars

\* "ctrl+l" was pending when the table was replaced, and "a" then completed
\* a sequence of the new table
C7_Witness ==
  /\ swapped = "consumed"
  /\ decision = "ExactMatch"
  /\ lastFull = "ctrl+l a"
  /\ mappings = DefaultMappings

(***************************************************************************)
(* C8  First-complete-match-wins: a key-down for a bound chord c with      *)
(* nothing pending is an ExactMatch for c's action and leaves nothing      *)
(* pending; and, as long as the table is not replaced while a sequence is  *)
(* being collected, no ExactMatch is ever produced for a sequence that     *)
(* extends a bound sequence.                                               *)
(***************************************************************************)
C8_ChordFires ==
  (ForwardedKeyDown /\ keySequence = <<>> /\ IsKey(mappings, Combo)) =>
    /\ decision' = "ExactMatch"
    /\ emitted' = <<mappings[Combo]>>
    /\ Quiet

C8_LongerUnreachable ==
  (decision' = "ExactMatch" /\ swapped' # "consumed") =>
    ~\E c \in DOMAIN mappings : StartsWith(lastFull', c \o " ")

C9_DefaultSuppression ==
  lastOp = "keyDown" =>
    (defaultPrevented <=> decision \in {"PartialMatch", "ExactMatch"})

(***************************************************************************)
(* C10  Exactly-once execution: a key-down classified as ExactMatch        *)
(* applies the bound action to the target element exactly once.            *)
(***************************************************************************)
C10_ExactlyOnce ==
  [][decision' = "ExactMatch" =>
       TextState(value', selStart', selEnd') =
         executeAction(emitted'[1], TextState(value, selStart, selEnd))]_vars

(***************************************************************************)
(* C11  Executor failure does not corrupt recognizer state: when the       *)
(* executor throws while the action of an ExactMatch is run, the key-down  *)
(* still completes as an ExactMatch with nothing pending and no timer, and *)
(* the next key-down is evaluated as a sequence of its own combo only.     *)
(***************************************************************************)
C11_Completes ==
  (lastOp' = "keyDown" /\ execFailed') =>
    /\ decision' = "ExactMatch"
    /\ handled'
    /\ Quiet

C11_NextIsFresh ==
  (execFailed /\ ForwardedKeyDown) => lastFull' = Combo

C11_ExecutorFailure == [][C11_Completes /\ C11_NextIsFresh]_vars

\* the executor threw for the action of "ctrl+l a" and nothing is pending
C11_Witness ==
  /\ execFailed
  /\ decision = "ExactMatch"
  /\ lastFull = "ctrl+l a"
  /\ emitted = <<InsertAlpha>>
  /\ value = ""
  /\ keySequence = <<>>
  /\ sequenceTimeout = Null
  /\ timers = {}

(***************************************************************************)
(* C12  Fail-closed table replacement: setMappings given a value that is   *)
(* neither a Map nor an object (null, undefined, a number, a string, a     *)
(* boolean) completes and leaves the recognizer with an empty table; with  *)
(* an empty table every key-down that yields a KeyCombo is a NoMatch.      *)
(***************************************************************************)
C12_EmptyTable ==
  (lastOp' = "setMappings" /\ lastTableKind' \in InvalidKinds) =>
    mappings' = EmptyTable

C12_NoMatchAfter ==
  (mappings = EmptyTable /\ ForwardedKeyDown) =>
    /\ decision' = "NoMatch"
    /\ ~handled'
    /\ emitted' = <<>>
    /\ mappings' = EmptyTable

C13_IgnoredWithoutSideEffects ==
  [][(/\ lastOp' = "keyDown"
      /\ (~enabled \/ ~extEnabled \/ lastTarget' # "textarea"))
     => /\ decision' = "Ignored"
        /\ ~handled'
        /\ emitted' = <<>>
        /\ ~defaultPrevented'
        /\ UNCHANGED <<keySequence, sequenceTimeout, timers, mappings, textVars>>]_vars

(***************************************************************************)
(* C14  Modifier-only keys ignored: a key-down whose key is Control, Alt,  *)
(* Shift or Meta yields no KeyCombo and is Ignored; the pending sequence   *)
(* and the pending timeout (its handle and its remaining time) are left    *)
(* exactly as they were, also while a partial match is in flight.          *)
(***************************************************************************)
C14_Frame ==
  (lastOp' = "keyDown" /\ lastEvent'.key \in {"Control", "Alt", "Shift", "Meta"})
  => /\ getKeyCombo(lastEvent', isMac) = NoCombo
     /\ decision' = "Ignored"
     /\ ~handled'
     /\ emitted' = <<>>
     /\ UNCHANGED <<keySequence, sequenceTimeout, timers, mappings, textVars>>

C14_ModifierOnlyIgnored == [][C14_Frame]_vars

\* Control was pressed on its own while "ctrl+l" was pending
C14_Witness ==
  /\ decision = "Ignored"
  /\ lastEvent = EvControl
  /\ enabled /\ extEnabled /\ lastActiveElement = "textarea"
  /\ keySequence = <<"ctrl+l">>
  /\ sequenceTimeout \in TimerIds(timers)

(***************************************************************************)
(* C15  setSequenceTimeout affects only future timeouts: changing the      *)
(* duration leaves a pending timeout, its remaining time and the pending   *)
(* sequence as they were; the timeout scheduled by a later PartialMatch    *)
(* runs for the duration in force at that key-down.                        *)
(***************************************************************************)
C15_PendingUntouched ==
  lastOp' = "setSequenceTimeout" =>
    UNCHANGED <<timers, keySequence, sequenceTimeout, mappings, enabled>>

C15_LaterUsesNew ==
  decision' = "PartialMatch" =>
    /\ UNCHANGED sequenceTimeoutDuration
    /\ \E t \in timers' : t.id = sequenceTimeout' /\ t.remaining = sequenceTimeoutDuration

C15_OnlyFutureTimeouts == [][C15_PendingUntouched /\ C15_LaterUsesNew]_vars

\* the duration was changed while a timeout scheduled with the old one is pending
C15_Witness ==
  /\ lastOp = "setSequenceTimeout"
  /\ keySequence # <<>>
  /\ \E t \in timers : /\ t.id = sequenceTimeout
                       /\ t.remaining = DefaultTimeoutDuration
                       /\ sequenceTimeoutDuration = TickMs

(***************************************************************************)
(* C16  Immutable table snapshot: the bindings the recognizer matches      *)
(* against change only in a step that replaces the table (setMappings);    *)
(* in particular a parse on the parser instance whose earlier result the   *)
(* recognizer was given leaves the recognizer's bindings as they were.     *)
(***************************************************************************)
C16_ImmutableSnapshot ==
  [][mappings' # mappings => lastOp' = "setMappings"]_vars

(***************************************************************************)
(* From the config text to the key-down: the text is parsed, the           *)
(* recognizer is handed the table, keys are pressed in the textarea        *)
(***************************************************************************)
ScenarioConfigs ==
  {"", NoBindConfig, BindLine("A-g", "math-insert \\alpha"), BindLine("C-m", "math-mode")}

\* Alt+G with the plain letter and with the character Option composes
EvAltG == KeyEvent("g", "KeyG", FALSE, TRUE, FALSE, FALSE)
EvOptionG == KeyEvent(Composed, "KeyG", FALSE, TRUE, FALSE, FALSE)

ScenarioEvents == {EvAltG, EvOptionG, EvCtrlM, EvA, EvAlt}

ScenarioNext ==
  \/ \E content \in ScenarioConfigs, opt \in ParseOptions : Parse(content, opt)
  \/ SetMappingsParsed
  \/ ElementActivated
  \/ \E ev \in ScenarioEvents, target \in Targets : KeyDown(ev, target, FALSE)
  \/ ResetText

ScenarioSpec == Init /\ [][ScenarioNext]_vars

(***************************************************************************)
(* getKeyCombo called on its own, for every kind of key-down               *)
(***************************************************************************)
\* event.key and event.code of the keys pressed: each letter plain, shifted
\* and composed, each digit plain and composed, the space bar, the named keys
KeyCodePairs ==
  {<<LowerChar(SubSeq(UpperChars, i, i)), "Key" \o SubSeq(UpperChars, i, i)>> : i \in 1..26} \cup
  {<<SubSeq(UpperChars, i, i), "Key" \o SubSeq(UpperChars, i, i)>> : i \in 1..26} \cup
  {<<Composed, "Key" \o SubSeq(UpperChars, i, i)>> : i \in 1..26} \cup
  {<<SubSeq(DigitChars, i, i), "Digit" \o SubSeq(DigitChars, i, i)>> : i \in 1..10} \cup
  {<<Composed, "Digit" \o SubSeq(DigitChars, i, i)>> : i \in 1..10} \cup
  {<<" ", "Space">>, <<Composed, "Space">>} \cup
  {<<k, k>> : k \in {"ArrowLeft", "ArrowRight", "ArrowUp", "ArrowDown", "PageUp",
                     "PageDown", "Home", "End", "Enter", "Tab", "Escape", "F5"}} \cup
  {<<Composed, "Backquote">>, <<"-", "Minus">>}

ComboEvents ==
  {KeyEvent(p[1], p[2], c, a, s, m) : p \in KeyCodePairs, c \in BOOLEAN,
                                      a \in BOOLEAN, s \in BOOLEAN, m \in BOOLEAN}
    \cup ModifierEvents

GetKeyCombo(ev) ==
  /\ lastCombo' = getKeyCombo(ev, isMac)
  /\ lastEvent' = ev
  /\ lastOp' = "getKeyCombo"
  /\ UNCHANGED <<isMac, extEnabled, lastActiveElement, handlerVars, hostVars, textVars,
                 lastFull, decision, handled, emitted, defaultPrevented, lastTarget,
                 execFailed, swapped, lastFired, cancelRequested, lastTableKind,
                 parserVars>>

ComboNext == \E ev \in ComboEvents : GetKeyCombo(ev)

ComboSpec == Init /\ [][ComboNext]_vars

(***************************************************************************)
(* Vocabulary of the parser properties                                     *)
(***************************************************************************)
\* the bind lines of the text parsed last, in file order
Bound == collectBindings(Split(configText, "\n"))

\* the Action of the commands the configs use
ActionOf == ("math-mode" :> Wrap("$", "$")) @@ ("font-bold" :> Wrap("**", "**"))

\* the name a key of a bind file has in a KeyCombo
KeyName(k) ==
  CASE ToLowerCase(k) = "return" -> "enter"
    [] ToLowerCase(k) = "prior" -> "pageup"
    [] ToLowerCase(k) = "next" -> "pagedown"
    [] ToLowerCase(k) = "left" -> "arrowleft"
    [] ToLowerCase(k) = "right" -> "arrowright"
    [] ToLowerCase(k) = "up" -> "arrowup"
    [] ToLowerCase(k) = "down" -> "arrowdown"
    [] OTHER -> ToLowerCase(k)

ParsedOnMacForCommand == lastOp = "parse" /\ isMac /\ parseOptions = "false"

(***************************************************************************)
(* Vocabulary of the KeyCombo properties                                   *)
(***************************************************************************)
ModifierKeyNames == {"Control", "Alt", "Shift", "Meta"}

\* getKeyCombo was called with a non-modifier key
ComboOfKey == lastOp = "getKeyCombo" /\ lastEvent.key \notin ModifierKeyNames

\* the held modifiers in the order ctrl, alt, shift, meta
HeldPrefix ==
  (IF lastEvent.ctrlKey THEN "ctrl+" ELSE "") \o
  (IF lastEvent.altKey THEN "alt+" ELSE "") \o
  (IF lastEvent.shiftKey THEN "shift+" ELSE "") \o
  (IF lastEvent.metaKey THEN "meta+" ELSE "")

\* the codes of the remap table: 26 letters, 10 digits, space
RemapCodes ==
  {"Key" \o SubSeq(UpperChars, i, i) : i \in 1..26} \cup
  {"Digit" \o SubSeq(DigitChars, i, i) : i \in 1..10} \cup {"Space"}

\* the key a code of the remap table stands for
RemapKey(code) ==
  IF code = "Space" THEN "space"
  ELSE IF Len(code) = 4 THEN ToLowerCase(SubSeq(code, 4, 4))
  ELSE SubSeq(code, 6, 6)

\* Option held on Mac without Ctrl and Meta, on a key of the remap table
OptionRemapped ==
  /\ isMac /\ lastEvent.altKey /\ ~lastEvent.ctrlKey /\ ~lastEvent.metaKey
  /\ lastEvent.code \in RemapCodes

\* the lowercased key name, the space bar named space
CanonicalKeyName(key) == IF key = " " THEN "space" ELSE ToLowerCase(key)

(***************************************************************************)
(* C17  KeyCombo canonical form: for every non-modifier key-down the       *)
(* KeyCombo is the held modifiers in the order ctrl, alt, shift, meta      *)
(* followed by the lowercased key name, with the arrow keys named          *)
(* arrowleft/arrowright/arrowup/arrowdown, the space bar space and the     *)
(* navigation keys pageup/pagedown/home/end.                               *)
(***************************************************************************)
C17_CanonicalForm ==
  ComboOfKey =>
    lastCombo = HeldPrefix \o (IF OptionRemapped THEN RemapKey(lastEvent.code)
                               ELSE CanonicalKeyName(lastEvent.key))

(***************************************************************************)
(* C18  Mac Option remap: on Mac with Alt held and neither Ctrl nor Meta,  *)
(* for the code of each of the 26 letters, 10 digits and space the key     *)
(* part of the KeyCombo is the key of the code, whatever event.key         *)
(* carries; in every other case the key part is the normalized lower-case  *)
(* event.key.                                                              *)
(***************************************************************************)
C18_OptionRemap ==
  ComboOfKey =>
    lastCombo = HeldPrefix \o (IF OptionRemapped THEN RemapKey(lastEvent.code)
                               ELSE KeyNormalizations(ToLowerCase(lastEvent.key)))

\* Option+G on Mac carries a composed character and gives alt+g
C18_Witness ==
  /\ lastOp = "getKeyCombo"
  /\ isMac
  /\ lastEvent = KeyEvent(Composed, "KeyG", FALSE, TRUE, FALSE, FALSE)
  /\ lastCombo = "alt+g"

(***************************************************************************)
(* C19  Mac Cmd-promotion: after a parse on Mac with mapMetaToCtrl=false,  *)
(* for every line that binds C-<k> to a supported command, with k one of   *)
(* m,n,o,p,q,r,s,t,w, no M-<k> line in the text and no other C-<k> line,   *)
(* the table maps 'meta+<k>' to the command's Action and has no key        *)
(* 'ctrl+<k>'.                                                             *)
(***************************************************************************)
C19_CmdPromotion ==
  ParsedOnMacForCommand =>
    \A b \in Range(Bound) :
      \A k \in {"m", "n", "o", "p", "q", "r", "s", "t", "w"} :
        (/\ b.originalKey = "C-" \o k
         /\ b.command \in DOMAIN ActionOf
         /\ \A o \in Range(Bound) : o.originalKey # "M-" \o k
         /\ \A o \in Range(Bound) : o.originalKey = b.originalKey => o = b)
        => /\ ("meta+" \o k) \in DOMAIN keySequences
           /\ keySequences["meta+" \o k] = ActionOf[b.command]
           /\ ("ctrl+" \o k) \notin DOMAIN keySequences

\* C-m math-mode alone was parsed on Mac with mapMetaToCtrl=false
C19_Witness ==
  /\ ParsedOnMacForCommand
  /\ configText = BindLine("C-m", "math-mode")
  /\ keySequences = ("meta+m" :> Wrap("$", "$"))

(***************************************************************************)
(* C20  Mac conflict drop: after a parse on Mac with mapMetaToCtrl=false,  *)
(* for every key k that a C-<k> line and an M-<k> line bind to the same    *)
(* supported command, in either order, the table maps 'meta+<k>' to the    *)
(* command's Action and has no key 'ctrl+<k>', <k> being the key's name    *)
(* in lower case or its KeyCombo name.                                     *)
(***************************************************************************)
C20_ConflictDrop ==
  ParsedOnMacForCommand =>
    \A c \in Range(Bound), m \in Range(Bound) :
      (/\ StartsWith(c.originalKey, "C-")
       /\ m.originalKey = "M-" \o Substring(c.originalKey, 2)
       /\ c.command = m.command
       /\ c.command \in DOMAIN ActionOf)
      => \E name \in {ToLowerCase(Substring(c.originalKey, 2)),
                      KeyName(Substring(c.originalKey, 2))} :
           /\ ("meta+" \o name) \in DOMAIN keySequences
           /\ keySequences["meta+" \o name] = ActionOf[c.command]
           /\ ("ctrl+" \o name) \notin DOMAIN keySequences

\* options.mapMetaToCtrl is true, given or by its default
MapMetaToCtrlIsTrue == parseOptions \in {"true", "absent"}

\* the table has an entry whose key starts with meta+
HasMetaEntry == \E key \in DOMAIN keySequences : StartsWith(key, "meta+")

(***************************************************************************)
(* C21  Conflict resolution only on Mac with mapMetaToCtrl=false: after a  *)
(* parse on a non-Mac platform, or on Mac with mapMetaToCtrl true or       *)
(* omitted, every line that binds C-<k>, k one character, to a supported   *)
(* command has its 'ctrl+<k>' entry, and the table has no 'meta+' entry.   *)
(***************************************************************************)
C21_OnlyOnMacWithFalse ==
  (lastOp = "parse" /\ (~isMac \/ MapMetaToCtrlIsTrue)) =>
    /\ \A b \in Range(Bound) :
         (/\ StartsWith(b.originalKey, "C-")
          /\ Len(b.originalKey) = 3
          /\ b.command \in DOMAIN ActionOf)
         => ("ctrl+" \o ToLowerCase(Substring(b.originalKey, 2))) \in DOMAIN keySequences
    /\ ~HasMetaEntry

(***************************************************************************)
(* Vocabulary of the normalization properties                              *)
(***************************************************************************)
\* what a modifier prefix of a key spec becomes, by platform and option
ModifierToken(prefix) ==
  CASE prefix = "C-" -> "ctrl+"
    [] prefix = "S-" -> "shift+"
    [] prefix = "A-" -> "alt+"
    [] prefix = "M-" -> IF ~isMac THEN "alt+"
                        ELSE IF normOptions = "false" THEN "meta+"
                        ELSE "ctrl+"
    [] OTHER -> ""

ModifierPrefixes == {"C-", "S-", "M-", "A-"}

C23_NotShiftRemoved ==
  (lastOp = "normalize" /\ normSequence \in NotShiftSpecs) =>
    /\ normalized =
         normalizeKeySequence(ReplaceAll(normSequence, "~S-", ""), normOptions, isMac)
    /\ IndexOfFrom(normalized, "~", 1) = 0

(***************************************************************************)
(* C24  Key-name synonyms: normalizeKeySequence names the key 'return'     *)
(* enter, 'prior' pageup, 'next' pagedown, 'left', 'right', 'up', 'down'   *)
(* arrowleft, arrowright, arrowup, arrowdown, and lower-cases every other  *)
(* name; no substitution alters the result of another.                     *)
(***************************************************************************)
C24_KeyNameSynonyms ==
  lastOp = "normalize" =>
    \A first \in ModifierPrefixes \cup {""} :
      \A name \in {"Return", "Prior", "Next", "Left", "Right", "Up", "Down", "Home",
                   "End"} :
        normSequence = first \o name =>
          normalized = ModifierToken(first) \o KeyName(name)

(***************************************************************************)
(* C30  Normalization determinism: a normalizeKeySequence call with the    *)
(* arguments of the first call returns what the first call returned,       *)
(* whatever was parsed or normalized in between, and no call changes the   *)
(* parser's table or the options it stored.                                *)
(***************************************************************************)
C30_Frame ==
  lastOp' = "normalize" =>
    /\ (firstNormalize'.sequence = normSequence' /\ firstNormalize'.options = normOptions')
         => normalized' = firstNormalize'.result
    /\ UNCHANGED <<keySequences, parseOptions, configText>>

C25_RoundTripChord ==
  (/\ lastOp = "parse"
   /\ ~isMac
   /\ parseOptions = "absent"
   /\ configText = "\\bind \"C-b\" \"font-bold\"")
  => /\ DOMAIN keySequences = {"ctrl+b"}
     /\ keySequences["ctrl+b"] = [type |-> "wrap", before |-> "**", after |-> "**"]

C25_Witness ==
  /\ lastOp = "parse"
  /\ ~isMac
  /\ parseOptions = "absent"
  /\ configText = "\\bind \"C-b\" \"font-bold\""
  /\ Cardinality(DOMAIN keySequences) = 1

\* the types of the Actions
ActionTypes == {"wrap", "insert", "navigation", "selection", "delete", "clipboard", "edit"}

\* the command is of the form math-insert <latex> or a name of the command table
IsKnownCommand(command) ==
  StartsWith(command, "math-insert ") \/ command \in DOMAIN CommandMappings

(***************************************************************************)
(* C26  Unknown commands are dropped: after a parse every value of the     *)
(* table is an Action, and a text whose bind lines all carry a command     *)
(* that is neither math-insert <latex> nor a name of the command table     *)
(* gives the empty table.                                                  *)
(***************************************************************************)
C26_UnknownDropped ==
  lastOp = "parse" =>
    /\ \A key \in DOMAIN keySequences : keySequences[key].type \in ActionTypes
    /\ (\A b \in Range(Bound) : ~IsKnownCommand(b.command)) => keySequences = EmptyTable

\* the pattern \bind "<keyspec>" "<command>" occurs in the line
IsBindStatement(line) ==
  \E i \in 1..(Len(line) - 4) :
    /\ SubSeq(line, i, i + 4) = "\\bind"
    /\ \E a \in (i + 6)..Len(line) :
         /\ CharAt(line, a) = "\""
         /\ \A j \in (i + 5)..(a - 1) : CharAt(line, j) \in WhiteSpace
         /\ \E b \in (a + 2)..Len(line) :
              /\ CharAt(line, b) = "\""
              /\ \A j \in (a + 1)..(b - 1) : CharAt(line, j) # "\""
              /\ \E c \in (b + 2)..Len(line) :
                   /\ CharAt(line, c) = "\""
                   /\ \A j \in (b + 1)..(c - 1) : CharAt(line, j) \in WhiteSpace
                   /\ \E d \in (c + 2)..Len(line) :
                        /\ CharAt(line, d) = "\""
                        /\ \A j \in (c + 1)..(d - 1) : CharAt(line, j) # "\""

\* the line is blank, a comment, a Format line, a \bind_file line or not a
\* bind statement: it does not begin with \bind and a space, or the pattern
\* does not occur in it
IsSkippedLine(line) ==
  \/ Trim(line) = ""
  \/ StartsWith(Trim(line), "#")
  \/ StartsWith(Trim(line), "Format")
  \/ StartsWith(Trim(line), "\\bind_file")
  \/ ~StartsWith(Trim(line), "\\bind ")
  \/ ~IsBindStatement(line)

\* the text without its skipped lines
WithoutSkippedLines(text) ==
  Join(SelectSeq(Split(text, "\n"), LAMBDA line : ~IsSkippedLine(line)), "\n")

\* the text parsed last has a skipped line
HasSkippedLine == \E line \in Range(Split(configText, "\n")) : IsSkippedLine(line)

(***************************************************************************)
(* C27  Tolerant parsing: parse returns for every text, and the table is   *)
(* the table of the same text without its blank lines, '#' lines, Format   *)
(* lines, \bind_file lines and lines that are not bind statements.         *)
(***************************************************************************)
C27_TolerantParsing ==
  lastOp = "parse" =>
    keySequences = parse(WithoutSkippedLines(configText), parseOptions, isMac)

\* bind lines on both sides of malformed lines were parsed
C27_Witness ==
  /\ lastOp = "parse"
  /\ ~isMac
  /\ configText = MalformedConfig
  /\ HasSkippedLine
  /\ DOMAIN keySequences = {"ctrl+b", "alt+g", "ctrl+m"}

(***************************************************************************)
(* Vocabulary of the scenario properties                                   *)
(***************************************************************************)
AlphaConfig == "\\bind \"A-g\" \"math-insert \\alpha\""

InsertAlphaAction == [type |-> "insert", text |-> "\\alpha"]

\* the recognizer holds the table of the parser
SeededWithParsed == aliased

(***************************************************************************)
(* C28  math-insert end to end: parsing \bind "A-g" "math-insert \alpha"   *)
(* on a non-Mac platform leaves the table 'alt+g' -> Insert{'\alpha'}, the *)
(* text after 'math-insert ' verbatim; a key-down with KeyCombo 'alt+g'    *)
(* on a recognizer that holds that table and has no pending sequence is    *)
(* an ExactMatch that emits that Insert action.                            *)
(***************************************************************************)
C28_Frame ==
  /\ (lastOp' = "parse" /\ ~isMac /\ configText' = AlphaConfig)
       => keySequences' = ("alt+g" :> InsertAlphaAction)
  /\ (/\ ForwardedKeyDown
      /\ SeededWithParsed
      /\ ~isMac
      /\ configText = AlphaConfig
      /\ keySequence = <<>>
      /\ Combo = "alt+g")
       => /\ decision' = "ExactMatch"
          /\ emitted' = <<InsertAlphaAction>>
          /\ handled'

C28_MathInsertEndToEnd == [][C28_Frame]_vars

\* Alt+G completed the parsed binding
C28_Witness ==
  /\ lastOp = "keyDown"
  /\ ~isMac
  /\ configText = AlphaConfig
  /\ aliased
  /\ mappings = ("alt+g" :> InsertAlphaAction)
  /\ lastEvent = EvAltG
  /\ decision = "ExactMatch"
  /\ emitted = <<InsertAlphaAction>>

(***************************************************************************)
(* C29  Empty configuration: parsing the empty string, or a text without   *)
(* a valid bind line, leaves the empty table; every non-modifier key-down  *)
(* on a recognizer that holds the empty table is a NoMatch, leaves the     *)
(* pending sequence empty and emits no action.                             *)
(***************************************************************************)
C29_Frame ==
  /\ (lastOp' = "parse" /\ configText' \in {"", NoBindConfig})
       => keySequences' = EmptyTable
  /\ (ForwardedKeyDown /\ SeededWithParsed /\ keySequences = EmptyTable)
       => /\ decision' = "NoMatch"
          /\ keySequence' = <<>>
          /\ emitted' = <<>>
          /\ ~handled'
          /\ UNCHANGED textVars

C29_EmptyConfiguration == [][C29_Frame]_vars

\* a key was pressed after the empty string had been parsed and handed over
C29_Witness ==
  /\ lastOp = "keyDown"
  /\ configText = ""
  /\ aliased
  /\ mappings = EmptyTable
  /\ lastEvent = EvCtrlM
  /\ lastActiveElement = "textarea"
  /\ decision = "NoMatch"

(***************************************************************************)
(* C31  Pending-state invariant: between handlers the collected sequence   *)
(* is non-empty exactly when a timeout is pending; a sequence becomes      *)
(* pending only by a key-down whose joined string plus a space is a prefix *)
(* of a key of the table in force at that key-down; the pending timeout    *)
(* starts at the configured duration, never gains time, survives disabling *)
(* and table replacement, and its firing leaves nothing pending.           *)
(***************************************************************************)
C31_PendingIffTimeout ==
  /\ (keySequence # <<>>) <=> (sequenceTimeout # Null)
  /\ (sequenceTimeout # Null) <=> (timers # {})
  /\ \A t \in timers : t.id = sequenceTimeout /\ t.seq = Join(keySequence, " ")

C31_BecamePendingByPrefix ==
  (keySequence' # keySequence /\ keySequence' # <<>>) =>
    /\ ForwardedKeyDown
    /\ decision' = "PartialMatch"
    /\ keySequence' = Append(keySequence, Combo)
    /\ IsPrefix(mappings, Join(keySequence', " "))

C31_Countdown ==
  \A t \in timers' :
    \/ \E u \in timers : u.id = t.id /\ u.seq = t.seq /\ t.remaining <= u.remaining
    \/ /\ decision' = "PartialMatch"
       /\ t.id = sequenceTimeout'
       /\ t.remaining = sequenceTimeoutDuration

C31_SurvivesDisableAndReplace ==
  lastOp' \in {"disable", "enable", "setMappings"} =>
    UNCHANGED <<keySequence, sequenceTimeout, timers>>

C31_ExpiryClears ==
  (keySequence # <<>> /\ lastOp' = "timeoutFire") =>
    /\ keySequence' = <<>>
    /\ sequenceTimeout' = Null
    /\ \E t \in timers : t.id = sequenceTimeout /\ t.remaining <= 0

C31_PendingStateInvariant ==
  /\ []C31_PendingIffTimeout
  /\ [][/\ C31_BecamePendingByPrefix
        /\ C31_Countdown
        /\ C31_SurvivesDisableAndReplace
        /\ C31_ExpiryClears]_vars

\* the timeout of a sequence has run after the recognizer was disabled and
\* the table replaced by an empty one
C31_Witness ==
  /\ lastOp = "timeoutFire"
  /\ lastFired # Null
  /\ ~enabled
  /\ mappings = EmptyTable
  /\ keySequence = <<>>

(***************************************************************************)
(* C34  A sequence-breaking key is discarded: with a sequence pending, a   *)
(* key-down whose extended sequence is neither a table key nor a prefix    *)
(* of one is a NoMatch that emits nothing, leaves the text alone and       *)
(* leaves nothing pending and no timer, also when the combo alone is a     *)
(* table key or a prefix of one; the combo is looked up only as part of    *)
(* the extended sequence.                                                  *)
(***************************************************************************)
C34_Breaks ==
  /\ ForwardedKeyDown
  /\ keySequence # <<>>
  /\ ~IsKey(mappings, Extended)
  /\ ~IsPrefix(mappings, Extended)

C34_Discarded ==
  C34_Breaks =>
    /\ decision' = "NoMatch"
    /\ lastFull' = Extended
    /\ ~handled'
    /\ emitted' = <<>>
    /\ UNCHANGED textVars
    /\ Quiet

C34_BreakingKeyDiscarded == [][C34_Discarded]_vars

\* "ctrl+l" broke the pending "ctrl+l" although it starts the bound sequence
C34_Witness ==
  /\ decision = "NoMatch"
  /\ lastFull = "ctrl+l ctrl+l"
  /\ IsPrefix(mappings, "ctrl+l")
  /\ keySequence = <<>>
  /\ timers = {}
  /\ emitted = <<>>

\* the modifier names in the order getKeyCombo writes them
ModifierOrder == <<"ctrl", "alt", "shift", "meta">>

ModifierRank(name) == CHOOSE i \in 1..Len(ModifierOrder) : ModifierOrder[i] = name

\* the parts of a combo before its key name are modifier names, each at most
\* once, in the order of ModifierOrder
InFixedOrder(token) ==
  LET parts == Split(token, "+")
      n == Len(parts)
  IN  /\ \A i \in 1..(n - 1) : parts[i] \in Range(ModifierOrder)
      /\ \A i \in 1..(n - 1), j \in 1..(n - 1) :
           i < j => ModifierRank(parts[i]) < ModifierRank(parts[j])

(***************************************************************************)
(* C32  Canonical modifier order in table keys: every space-separated      *)
(* token of a normalized key sequence holds each of ctrl, alt, shift and   *)
(* meta at most once, in that order, before the key name, whatever the     *)
(* order of the prefixes in the key spec.                                  *)
(***************************************************************************)
C32_CanonicalModifierOrder ==
  lastOp = "normalize" =>
    \A i \in 1..Len(Split(normalized, " ")) : InFixedOrder(Split(normalized, " ")[i])

\* the key specs of the arrow and page keys
ArrowAndPageNames == {"Left", "Right", "Up", "Down", "Prior", "Next"}

\* event.key (and event.code) of the physical key a key spec names
PhysicalKey(name) ==
  CASE name = "Left" -> "ArrowLeft"
    [] name = "Right" -> "ArrowRight"
    [] name = "Up" -> "ArrowUp"
    [] name = "Down" -> "ArrowDown"
    [] name = "Prior" -> "PageUp"
    [] name = "Next" -> "PageDown"

\* the key-down of the physical key of a key spec, Ctrl held or not
PhysicalKeyDown(name, ctrl) ==
  KeyEvent(PhysicalKey(name), PhysicalKey(name), ctrl, FALSE, FALSE, FALSE)

(***************************************************************************)
(* C33  Parser and recognizer agree on key names: the table key the        *)
(* parser writes for a key spec naming Left, Right, Up, Down, Prior or     *)
(* Next, alone or with Ctrl, is the KeyCombo the recognizer computes for   *)
(* the key-down of ArrowLeft, ArrowRight, ArrowUp, ArrowDown, PageUp or    *)
(* PageDown with the same modifier held.                                   *)
(***************************************************************************)
C33_ParserAndRecognizerAgree ==
  lastOp = "normalize" =>
    \A name \in ArrowAndPageNames :
      /\ normSequence = name =>
           normalized = getKeyCombo(PhysicalKeyDown(name, FALSE), isMac)
      /\ normSequence = "C-" \o name =>
           normalized = getKeyCombo(PhysicalKeyDown(name, TRUE), isMac)

\* the bind line is entered under its normalized key: its command is
\* supported and the C-/M- conflict pass of the Mac Command mode neither
\* drops nor promotes it
EnteredAsNormalized(b) ==
  /\ IsKnownCommand(b.command)
  /\ b.originalKey \notin conflictingCtrlKeys(Bound, parseOptions, isMac)

\* the table key of a bind line of the parsed text
TableKeyOf(b) == normalizeKeySequence(b.originalKey, parseOptions, isMac)

Promoted(k) ==
  /\ \E b \in Range(Bound) : b.originalKey = "C-" \o k /\ IsKnownCommand(b.command)
  /\ \A b \in Range(Bound) : b.originalKey # "M-" \o k
  /\ IsKey(keySequences, "meta+" \o k)

(***************************************************************************)
(* C36  Promotion does not shadow declared Meta sequences: after a parse   *)
(* on Mac with mapMetaToCtrl false, when a C-<k> binding was promoted to   *)
(* the chord meta+<k>, no key of the table starts with meta+<k> followed   *)
(* by a space.                                                             *)
(***************************************************************************)
C36_PromotionDoesNotShadow ==
  ParsedOnMacForCommand =>
    \A k \in CommonMacKeys : Promoted(k) => ~IsPrefix(keySequences, "meta+" \o k)

(***************************************************************************)
(* The two ActionExecutors and the MappingManager applied to the Actions   *)
(* of a parsed table                                                       *)
(***************************************************************************)
\* action[name] of JavaScript: undefined when the object has no such property
Field(action, name) == IF name \in DOMAIN action THEN action[name] ELSE "undefined"

\* the executors object of getActionExecutor (core/config-manager.js)
getActionExecutor(type) ==
  IF type \in {"insert", "wrap", "navigation", "selection", "delete", "clipboard", "edit"}
    THEN type
  ELSE "undefined"

\* the navigationActions object of executeNavigation
NavigationActions ==
  {"moveRight", "moveLeft", "moveWordRight", "moveWordLeft", "moveLineStart",
   "moveLineEnd", "moveDocumentStart", "moveDocumentEnd"}

\* executeNavigation: the operation is run if the table has it
executeNavigation(action) ==
  IF Field(action, "action") \in NavigationActions THEN "executed"
  ELSE "unknownOperation"

\* executeSelection delegates to executeNavigation
executeSelection(action) == executeNavigation(action)

\* the deleteActions object of executeDelete
DeleteActions ==
  {"deleteRight", "deleteLeft", "deleteWordRight", "deleteWordLeft", "deleteLineForward"}

executeDelete(action) ==
  IF Field(action, "action") \in DeleteActions THEN "executed" ELSE "unknownOperation"

\* executeClipboard: copy and cut call document.execCommand, the paste case
\* is empty
executeClipboard(action) ==
  IF Field(action, "action") \in {"copy", "cut"} THEN "executed"
  ELSE IF Field(action, "action") = "paste" THEN "emptyCase"
  ELSE "unknownOperation"

executeEdit(action) ==
  IF Field(action, "action") \in {"undo", "redo"} THEN "executed" ELSE "unknownOperation"

\* the branch ActionExecutor.executeAction of core/config-manager.js ends in
coreExecuteAction(action) ==
  LET executor == getActionExecutor(Field(action, "type"))
  IN  CASE executor = "undefined" -> "unknownType"
        [] executor \in {"insert", "wrap"} -> "executed"
        [] executor = "navigation" -> executeNavigation(action)
        [] executor = "selection" -> executeSelection(action)
        [] executor = "delete" -> executeDelete(action)
        [] executor = "clipboard" -> executeClipboard(action)
        [] executor = "edit" -> executeEdit(action)

\* the branch ActionExecutor.executeAction of hotkeys/action-executor.js
\* ends in: its handlers read action.navigation, action.deletion,
\* action.clipboard and action.edit
hotkeysExecuteAction(action) ==
  LET type == Field(action, "type")
  IN  CASE type \in {"insert", "wrap"} -> "executed"
        [] type = "navigation" ->
             IF Field(action, "navigation") \in
                  {"char-forward", "char-backward", "word-right", "word-left",
                   "line-begin", "line-end", "buffer-begin", "buffer-end"}
               THEN "executed" ELSE "unknownOperation"
        [] type = "deletion" ->
             IF Field(action, "deletion") \in
                  {"char-delete-forward", "char-delete-backward", "word-delete-forward",
                   "word-delete-backward", "line-delete-forward", "selection-delete"}
               THEN "executed" ELSE "unknownOperation"
        [] type = "selection" -> "notImplemented"
        [] type = "clipboard" ->
             IF Field(action, "clipboard") \in {"copy", "cut", "paste"}
               THEN "executed" ELSE "unknownOperation"
        [] type = "edit" ->
             IF Field(action, "edit") \in {"undo", "redo"}
               THEN "executed" ELSE "unknownOperation"
        [] OTHER -> "unknownType"

\* MappingManager.validateAction
validateAction(action) ==
  IF Field(action, "type") = "undefined" THEN [valid |-> FALSE, error |-> "type"]
  ELSE IF Field(action, "type") \notin
            {"insert", "wrap", "navigation", "deletion", "selection", "clipboard", "edit"}
    THEN [valid |-> FALSE, error |-> "invalid type"]
  ELSE IF action.type = "insert" /\ Field(action, "text") = "undefined"
    THEN [valid |-> FALSE, error |-> "text"]
  ELSE IF action.type = "wrap" /\ "undefined" \in {Field(action, "before"),
                                                    Field(action, "after")}
    THEN [valid |-> FALSE, error |-> "before and after"]
  ELSE IF action.type = "navigation" /\ Field(action, "navigation") = "undefined"
    THEN [valid |-> FALSE, error |-> "navigation"]
  ELSE IF action.type = "deletion" /\ Field(action, "deletion") = "undefined"
    THEN [valid |-> FALSE, error |-> "deletion"]
  ELSE IF action.type = "clipboard" /\ Field(action, "clipboard") = "undefined"
    THEN [valid |-> FALSE, error |-> "clipboard"]
  ELSE IF action.type = "edit" /\ Field(action, "edit") = "undefined"
    THEN [valid |-> FALSE, error |-> "edit"]
  ELSE [valid |-> TRUE, error |-> ""]

\* importMappings(data, 'map'): the entries validateAction rejects are
\* deleted, the others become the MappingManager's Map
invalidActions(table) == {key \in DOMAIN table : ~validateAction(table[key]).valid}

importMappings(table) ==
  [mappings |-> [key \in DOMAIN table \ invalidActions(table) |-> table[key]],
   skipped |-> invalidActions(table)]

\* one bind line for each command of the command table, for a math-insert
\* command and for a command the table does not have
CommandConfigs ==
  {BindLine("C-x", command) :
     command \in DOMAIN CommandMappings \cup {"math-insert \\alpha", "no-such-command"}}

\* the Action bound to key is handed to executeAction of both executors, as
\* on an ExactMatch
ExecuteAction(key) ==
  /\ key \in DOMAIN keySequences
  /\ executed' = [action |-> keySequences[key],
                  core |-> coreExecuteAction(keySequences[key]),
                  hotkeys |-> hotkeysExecuteAction(keySequences[key])]
  /\ lastOp' = "executeAction"
  /\ UNCHANGED <<imported, skipped, managerVars, configText, parseOptions, keySequences,
                 aliased, normVars, lastCombo, isMac, extEnabled, lastActiveElement,
                 handlerVars, hostVars, textVars, keyVars, swapped, lastFired,
                 cancelRequested, lastTableKind>>

\* mappingManager.importMappings(parser.parse(...), 'map')
ImportMappings ==
  /\ lastOp # "init"
  /\ \E result \in {importMappings(keySequences)} :
       /\ imported' = result.mappings
       /\ skipped' = result.skipped
  /\ lastOp' = "importMappings"
  /\ UNCHANGED <<executed, managerVars, configText, parseOptions, keySequences,
                 aliased, normVars, lastCombo, isMac, extEnabled, lastActiveElement,
                 handlerVars, hostVars, textVars, keyVars, swapped, lastFired,
                 cancelRequested, lastTableKind>>

\* nothing was executed or imported yet: the runs explored parse first and
\* then execute and import the table
NothingRunYet == executed = NoExecution /\ imported = EmptyTable /\ skipped = {}

ActionNext ==
  \/ \E content \in CommandConfigs, opt \in ParseOptions :
       NothingRunYet /\ Parse(content, opt)
  \/ \E key \in DOMAIN keySequences : ExecuteAction(key)
  \/ ImportMappings

ActionSpec == Init /\ [][ActionNext]_vars

\* the table holds an Action of one of the seven types of the command table
ParserProduced(action) == Field(action, "type") \in ActionTypes

(***************************************************************************)
(* C37  Every parser-produced Action is executable: an Action of a parsed  *)
(* table that is handed to executeAction ends neither in the unknown-type  *)
(* branch nor in a handler that does not know its operation.               *)
(***************************************************************************)
C37_EveryActionExecutable ==
  (lastOp = "executeAction" /\ ParserProduced(executed.action)) =>
    executed.core \notin {"unknownType", "unknownOperation"}

(***************************************************************************)
(* C38  Every parser-produced binding survives import: importMappings      *)
(* applied to a parsed table skips no entry whose Action has one of the    *)
(* parser's types, and the MappingManager then holds that key and Action.  *)
(***************************************************************************)
C38_EveryBindingSurvivesImport ==
  lastOp = "importMappings" =>
    \A key \in DOMAIN keySequences :
      ParserProduced(keySequences[key]) =>
        /\ key \notin skipped
        /\ key \in DOMAIN imported
        /\ imported[key] = keySequences[key]

(***************************************************************************)
(* The ways a timeout duration reaches the recognizer                      *)
(***************************************************************************)
\* JavaScript values that are not finite numbers, coded as integers far
\* from the durations in use
NaNValue == -1000001
InfinityValue == -1000002
UndefinedValue == -1000003
TextValue == -1000004           \* a non-empty string

NotFinite == {NaNValue, InfinityValue, UndefinedValue, TextValue}

\* typeof v === 'number'
TypeofNumber(v) == v \notin {UndefinedValue, TextValue}

\* the value counts as true in a condition
Truthy(v) == v \notin {0, NaNValue, UndefinedValue}

\* v > 0; a comparison with NaN, undefined or a string that is not numeric
\* is false
GreaterThanZero(v) ==
  IF v = InfinityValue THEN TRUE
  ELSE IF v \in NotFinite THEN FALSE
  ELSE v > 0

\* v ?? fallback
NullishOr(v, fallback) == IF v = UndefinedValue THEN fallback ELSE v

\* the payloads a message, a call or the storage can carry
TimeoutPayloads ==
  {0, 0 - TickMs, TickMs, DefaultTimeoutDuration} \cup NotFinite

\* what the handlers below leave alone
timeoutFrame ==
  <<configText, parseOptions, keySequences, aliased, normVars, execVars, currentConfig,
    managerMappings, calls, completed, lastCombo, isMac, extEnabled, lastActiveElement, keySequence,
    sequenceTimeout, mappings, enabled, hostVars, textVars, keyVars, swapped, lastFired,
    cancelRequested, lastTableKind>>

\* ConfigurationManager.updateSequenceTimeout: a valid value is stored and
\* emitted as 'sequenceTimeoutUpdated', whose listener in KeySequenceHandler
\* assigns it; any other value throws
UpdateSequenceTimeout(timeout) ==
  /\ IF TypeofNumber(timeout) /\ GreaterThanZero(timeout)
       THEN /\ settings' = [settings EXCEPT !.sequenceTimeout = timeout]
            /\ managerEvents' = <<[name |-> "sequenceTimeoutUpdated", timeout |-> timeout]>>
            /\ sequenceTimeoutDuration' = timeout
       ELSE /\ managerEvents' = <<>>
            /\ UNCHANGED <<settings, sequenceTimeoutDuration>>
  /\ lastOp' = "updateSequenceTimeout"
  /\ UNCHANGED timeoutFrame

\* the 'sequenceTimeoutUpdated' message handler of LyXHotkeyExtension
SequenceTimeoutMessage(timeout) ==
  /\ sequenceTimeoutDuration' =
       IF Truthy(timeout) /\ TypeofNumber(timeout) THEN timeout
       ELSE sequenceTimeoutDuration
  /\ lastOp' = "sequenceTimeoutMessage"
  /\ UNCHANGED <<timeoutFrame, settings, managerEvents>>

\* ConfigurationManager.loadSettings followed by loadInitialConfiguration of
\* LyXHotkeyExtension: the stored value, or 1000 when there is none, becomes
\* the setting, and is handed to setSequenceTimeout unless it counts as false
LoadConfiguration(stored) ==
  /\ settings' = [settings EXCEPT !.sequenceTimeout = NullishOr(stored, 1000)]
  /\ sequenceTimeoutDuration' =
       IF Truthy(NullishOr(stored, 1000)) THEN NullishOr(stored, 1000)
       ELSE sequenceTimeoutDuration
  /\ lastOp' = "loadConfiguration"
  /\ UNCHANGED <<timeoutFrame, managerEvents>>

TimeoutNext ==
  \/ \E timeout \in TimeoutPayloads : UpdateSequenceTimeout(timeout)
  \/ \E timeout \in TimeoutPayloads : SequenceTimeoutMessage(timeout)
  \/ \E d \in TimeoutPayloads : SetSequenceTimeout(d)
  \/ \E stored \in TimeoutPayloads : LoadConfiguration(stored)

TimeoutSpec == Init /\ [][TimeoutNext]_vars

(***************************************************************************)
(* C39  Timeout duration stays valid: in every reachable state the         *)
(* recognizer's timeout duration is a finite number greater than zero,     *)
(* whatever payload a 'sequenceTimeoutUpdated' event or message, a         *)
(* setSequenceTimeout call or a settings load carried.                     *)
(***************************************************************************)
C39_DurationStaysValid ==
  sequenceTimeoutDuration \notin NotFinite /\ sequenceTimeoutDuration > 0

(***************************************************************************)
(* ConfigurationManager: updateSettings and loadConfig, which are          *)
(* suspended while chrome.storage saves and can overlap                    *)
(***************************************************************************)
MaxCalls == 2          \* at most this many manager calls suspended at once

\* the values of settings.macMMapping
MacMMappings == {"ctrl", "meta"}

\* newSettings.macMMapping of an updateSettings request; absent when the
\* request changes another setting only
NewMacMMappings == MacMMappings \cup {"absent"}

\* config texts handed to loadConfig
ManagerConfigs ==
  {BindLine("M-m", "math-mode"),
   TwoLines(BindLine("C-b", "font-bold"), BindLine("M-m g a", "math-insert \\alpha"))}

\* variant: the Mac preference is not passed on to the parser
managerParseOptions_Default(macMMapping) == "absent"

\* parseOptions of parseConfig: mapMetaToCtrl: this.settings.macMMapping === 'ctrl'
managerParseOptions(macMMapping) == IF macMMapping = "ctrl" THEN "true" ELSE "false"

Call(kind, macMMapping, changed, position, alone) ==
  [kind |-> kind, macMMapping |-> macMMapping, changed |-> changed,
   position |-> position, alone |-> alone]

\* another call starts while these are suspended
Overlapped(suspended) == [i \in 1..Len(suspended) |-> [suspended[i] EXCEPT !.alone = FALSE]]

\* the sequence without its i-th element
RemoveAt(seq, i) == SubSeq(seq, 1, i - 1) \o SubSeq(seq, i + 1, Len(seq))

\* what the manager's handlers leave alone
managerFrame ==
  <<configText, parseOptions, keySequences, aliased, normVars, execVars, lastCombo, isMac,
    extEnabled, lastActiveElement, keySequence, sequenceTimeout, sequenceTimeoutDuration,
    enabled, hostVars, textVars, keyVars, swapped, lastFired, cancelRequested,
    lastTableKind>>

\* updateSettings(newSettings) up to its first await: the settings are
\* merged and the save is started
UpdateSettingsBegin(macMMapping) ==
  /\ Len(calls) < MaxCalls
  /\ settings' = IF macMMapping = "absent" THEN settings
                 ELSE [settings EXCEPT !.macMMapping = macMMapping]
  /\ calls' = Append(Overlapped(calls),
                     Call("updateSettings", macMMapping,
                          macMMapping # "absent" /\ macMMapping # settings.macMMapping,
                          "saveSettings", calls = <<>>))
  /\ managerEvents' = <<>>
  /\ lastOp' = "updateSettingsBegin"
  /\ UNCHANGED <<managerFrame, currentConfig, managerMappings, completed, mappings>>

\* updateSettings after the save: 'settingsUpdated' is emitted; with a
\* macMMapping in the request and a config text, parseConfig runs up to its
\* own await, otherwise the call returns
UpdateSettingsResume(i) ==
  /\ calls[i].kind = "updateSettings"
  /\ calls[i].position = "saveSettings"
  /\ managerEvents' = <<[name |-> "settingsUpdated"]>>
  /\ IF calls[i].macMMapping # "absent" /\ currentConfig # ""
       THEN /\ \E table \in {parse(currentConfig, managerParseOptions(settings.macMMapping),
                                   isMac)} :
                 managerMappings' = table
            /\ calls' = [calls EXCEPT ![i].position = "saveMappings"]
            /\ lastOp' = "parseConfig"
            /\ UNCHANGED completed
       ELSE /\ calls' = RemoveAt(calls, i)
            /\ completed' = calls[i]
            /\ lastOp' = "updateSettings"
            /\ UNCHANGED managerMappings
  /\ UNCHANGED <<managerFrame, settings, currentConfig, mappings>>

\* loadConfig(text) with a text that is not empty: parseConfig up to its await
LoadConfigBegin(text) ==
  /\ Len(calls) < MaxCalls
  /\ \E table \in {parse(text, managerParseOptions(settings.macMMapping), isMac)} :
       managerMappings' = table
  /\ currentConfig' = text
  /\ calls' = Append(Overlapped(calls),
                     Call("loadConfig", "absent", FALSE, "saveMappings", calls = <<>>))
  /\ managerEvents' = <<>>
  /\ lastOp' = "parseConfig"
  /\ UNCHANGED <<managerFrame, settings, completed, mappings>>

\* parseConfig after the save: 'mappingsUpdated' is emitted with
\* this.mappings, the listener of KeySequenceHandler takes that Map, and the
\* call that awaited parseConfig returns
ParseConfigResume(i) ==
  /\ calls[i].position = "saveMappings"
  /\ managerEvents' = <<[name |-> "mappingsUpdated", mappings |-> managerMappings]>>
  /\ mappings' = setMappings([kind |-> "map", entries |-> managerMappings])
  /\ calls' = RemoveAt(calls, i)
  /\ completed' = calls[i]
  /\ lastOp' = calls[i].kind
  /\ UNCHANGED <<managerFrame, settings, currentConfig, managerMappings>>

ManagerNext ==
  \/ \E macMMapping \in NewMacMMappings : UpdateSettingsBegin(macMMapping)
  \/ \E i \in 1..Len(calls) : UpdateSettingsResume(i)
  \/ \E text \in ManagerConfigs : LoadConfigBegin(text)
  \/ \E i \in 1..Len(calls) : ParseConfigResume(i)

ManagerSpec == Init /\ [][ManagerNext]_vars

\* an updateSettings call with a changed macMMapping has just returned and
\* there is a config text
PreferenceChanged ==
  /\ lastOp = "updateSettings"
  /\ completed.kind = "updateSettings"
  /\ completed.changed
  /\ currentConfig # ""

\* the manager's table is the parse of the config text for the call's
\* preference, and it was emitted to the recognizer
MappingsFollow ==
  /\ managerMappings =
       parse(currentConfig, IF completed.macMMapping = "ctrl" THEN "true" ELSE "false",
             isMac)
  /\ managerEvents = <<[name |-> "mappingsUpdated", mappings |-> managerMappings]>>
  /\ mappings = managerMappings

====
